---- MODULE Spec2Model ----
(***************************************************************************)
(* Model of the ecdsa-node server (server/src/index.ts, crypto.ts,         *)
(* storage.ts): an in-memory ledger of balances and nonces, mutated by the *)
(* POST /send handler after an ordered validation pipeline, read by the    *)
(* GET /nonce and GET /balance handlers, and saved by a debounced timer.   *)
(*                                                                         *)
(* Node runs every handler to completion on one thread and none of the     *)
(* handlers awaits, so one handler execution is one atomic step.  Requests *)
(* whose bodies have been received but whose handler has not run yet are   *)
(* the requests "in flight".                                               *)
(***************************************************************************)
EXTENDS Bags, FiniteSets, Integers, Sequences, TLC

VARIABLES
  balances,     \* state.balances : address string -> number (partial map)
  nonces,       \* state.nonces   : address string -> number (partial map)
  saveTimeout,  \* storage.ts saveTimeout : timer handle or Null
  timers,       \* timer handles the Node event loop holds as pending
  disk,         \* contents of data.json : NoFile, Corrupt or a snapshot
  up,           \* the server process is running
  inflight,     \* bag of POST /send bodies received, handler not yet run
  last,         \* the response the latest step sent: operation, input, response
  committed,    \* history: bag of the bodies whose handler committed
  wallet        \* the client Wallet: what it shows, and its GET requests under way

vars == <<balances, nonces, saveTimeout, timers, disk, up, inflight, last, committed,
          wallet>>

(***************************************************************************)
(* Bounds of the model.                                                    *)
(***************************************************************************)
MaxNonce == 2          \* largest nonce a modelled client submits
MaxAmount == 2         \* largest amount a client of the running server submits
MaxInflight == 2       \* number of requests that may be in flight together
InitBalanceA == 2      \* balance of account A in the stored ledger
InitBalanceB == 1      \* balance of account B in the stored ledger

(***************************************************************************)
(* Program constants.                                                      *)
(***************************************************************************)
AddrHexLen == 40       \* /^[0-9a-fA-F]{40}$/
AmountCap == 1000000   \* amount <= 1000000
SignatureBytes == 65   \* signatureBytes.length !== 65

(***************************************************************************)
(* JSON values of a request body.  A string is a tuple of one-character    *)
(* strings so that its characters can be inspected.                        *)
(***************************************************************************)
Null == [k |-> "null"]
Undefined == [k |-> "undefined"]
Num(n) == [k |-> "number", n |-> n, f |-> 0]
NumHalf(n) == [k |-> "number", n |-> n, f |-> 5]     \* the number n + 0.5
Str(s) == [k |-> "string", s |-> s]
Obj(fields) == [k |-> "object", fields |-> fields]   \* fields in key order

IsStr(v) == v.k = "string"
IsNum(v) == v.k = "number"

\* JavaScript truthiness of a JSON value (the ! operator).
Falsy(v) ==
  \/ v.k = "undefined"
  \/ v.k = "null"
  \/ (v.k = "string" /\ v.s = <<>>)
  \/ (v.k = "number" /\ v.n = 0 /\ v.f = 0)

\* Property read message.key : the value of the field, undefined if absent.
RECURSIVE GetFrom(_, _, _)
GetFrom(fields, key, i) ==
  IF i = 0 THEN Undefined
  ELSE IF fields[i][1] = key THEN fields[i][2]
  ELSE GetFrom(fields, key, i - 1)

Get(obj, key) ==
  IF obj.k = "object" THEN GetFrom(obj.fields, key, Len(obj.fields)) ELSE Undefined

(***************************************************************************)
(* Strings and addresses.                                                  *)
(***************************************************************************)
Rep(c, n) == [i \in 1..n |-> c]

HexDigits == {"0", "1", "2", "3", "4", "5", "6", "7", "8", "9",
              "a", "b", "c", "d", "e", "f", "A", "B", "C", "D", "E", "F"}

LowerChar(c) ==
  CASE c = "A" -> "a" [] c = "B" -> "b" [] c = "C" -> "c"
    [] c = "D" -> "d" [] c = "E" -> "e" [] c = "F" -> "f"
    [] c = "X" -> "x" [] OTHER -> c

toLowerCase(s) == [i \in DOMAIN s |-> LowerChar(s[i])]

startsWith0x(s) == Len(s) >= 2 /\ s[1] = "0" /\ s[2] = "x"

\* Mutant: the pattern is not anchored at the end of the string.
isValidAddressUnanchored(address) ==
  IF ~startsWith0x(address) THEN FALSE
  ELSE LET cleanAddress == SubSeq(address, 3, Len(address))
       IN  /\ Len(cleanAddress) >= AddrHexLen
           /\ \A i \in 1..AddrHexLen : cleanAddress[i] \in HexDigits

isValidAddress(address) ==
  IF ~startsWith0x(address) THEN FALSE
  ELSE LET cleanAddress == SubSeq(address, 3, Len(address))
       IN  /\ Len(cleanAddress) = AddrHexLen
           /\ \A i \in 1..Len(cleanAddress) : cleanAddress[i] \in HexDigits

\* Mutant: the cap itself is refused.
isValidAmountExclusiveCap(amount) ==
  /\ IsNum(amount) /\ amount.f = 0
  /\ amount.n > 0
  /\ amount.n < AmountCap

isValidAmount(amount) ==
  /\ IsNum(amount) /\ amount.f = 0      \* Number.isInteger(amount)
  /\ amount.n > 0
  /\ amount.n <= AmountCap

(***************************************************************************)
(* Cryptography.  Keccak-256 and ECDSA are modelled by their contracts: a  *)
(* digest determines the bytes hashed, a signature recovers the signer's   *)
(* public key over the digest it was made for and an unrelated key over    *)
(* any other digest, and recovery throws on a malformed signature.         *)
(***************************************************************************)
Keys == {"k1", "k2"}              \* private keys held by clients

Addr(c) == <<"0", "x">> \o Rep(c, AddrHexLen)
AddrA == Addr("a")                \* address of key k1
AddrB == Addr("b")                \* address of key k2
AddrC == Addr("c")                \* an address nobody holds the key of
AddrAUpper == <<"0", "x">> \o Rep("A", AddrHexLen)   \* AddrA in upper case

\* JSON.stringify(message): the keys and values in the object's key order.
JSONstringify(message) ==
  [i \in 1..(2 * Len(message.fields)) |->
     IF i % 2 = 1 THEN message.fields[(i + 1) \div 2][1]
                  ELSE message.fields[i \div 2][2]]

keccak_256(bytes) == [digest |-> bytes]

\* secp.etc.bytesToHex : a hex string, its content kept as the bytes it encodes.
bytesToHex(bytes) == Str(<<bytes>>)

getPublicKey(privateKey) == [pub |-> privateKey]

\* secp.signAsync(hash, key, {format: 'recovered'}) : 65 bytes.
sign(digest, privateKey) ==
  [len |-> SignatureBytes, wellformed |-> TRUE, by |-> privateKey, over |-> digest]

\* Mutant: the key is recovered over the digest the signature was made for,
\* whatever digest the caller passes.
recoverPublicKeyIgnoringDigest(sig, digest) == getPublicKey(sig.by)

\* secp.recoverPublicKey(sig, hash, {prehash: false})
recoverPublicKey(sig, digest) ==
  IF sig.over = digest THEN getPublicKey(sig.by) ELSE getPublicKey("unrelated")

publicKeyToAddress(publicKey) ==
  CASE publicKey.pub = "k1" -> AddrA
    [] publicKey.pub = "k2" -> AddrB
    [] OTHER -> Addr("9")

Thrown(msg) == [threw |-> TRUE, error |-> msg, value |-> <<>>]
Returned(v) == [threw |-> FALSE, error |-> "", value |-> v]

recoverPublicKeyFromSignature(messageHash, signature) ==
  IF ~IsStr(signature) THEN Thrown("hex string expected")
  ELSE LET signatureBytes == signature.s[1]
       IN  IF signatureBytes.len # SignatureBytes
             THEN Thrown("Invalid signature length")
           ELSE IF ~signatureBytes.wellformed
             THEN Thrown("invalid signature")
           ELSE Returned(recoverPublicKey(signatureBytes, messageHash.s[1]))

verifySignatureAndGetAddress(messageHash, signature) ==
  LET publicKey == recoverPublicKeyFromSignature(messageHash, signature)
  IN  IF publicKey.threw THEN publicKey
      ELSE Returned(publicKeyToAddress(publicKey.value))

\* Mutant: the prehash option is left out, so the library signs the SHA-256 of
\* the Keccak digest instead of the digest.
signTransactionPrehashed(privateKey, message) ==
  LET messageHash == keccak_256(JSONstringify(message))
      sig == sign([digest |-> <<"sha256", messageHash>>], privateKey)
  IN  [signature |-> bytesToHex(sig), messageHash |-> bytesToHex(messageHash)]

\* Client: signTransaction(privateKey, message) of client/src/crypto.ts.
signTransaction(privateKey, message) ==
  LET messageHash == keccak_256(JSONstringify(message))
      sig == sign(messageHash, privateKey)
  IN  [signature |-> bytesToHex(sig), messageHash |-> bytesToHex(messageHash)]

\* Client: deriveAddress(privateKey) of client/src/utils.ts; the empty string
\* for a key that is not 64 hex digits.
deriveAddress(privateKey) ==
  IF privateKey \notin Keys THEN <<>>
  ELSE publicKeyToAddress(getPublicKey(privateKey))

(***************************************************************************)
(* The ledger: partial maps from address strings to numbers.               *)
(***************************************************************************)
EmptyMap == <<>>

Put(map, key, val) ==
  [x \in (DOMAIN map) \cup {key} |-> IF x = key THEN val ELSE map[x]]

\* map[key] || 0
OrZero(map, key) == IF key \in DOMAIN map THEN map[key] ELSE 0

\* Mutant: an account without funds is opened with a balance of 1.
setInitialBalanceGrant(bal, address) ==
  IF OrZero(bal, address) = 0 THEN Put(bal, address, 1) ELSE bal

setInitialBalance(bal, address) ==
  IF OrZero(bal, address) = 0 THEN Put(bal, address, 0) ELSE bal

(***************************************************************************)
(* Responses.                                                              *)
(***************************************************************************)
INVALID_SIGNATURE == "INVALID_SIGNATURE"
INSUFFICIENT_FUNDS == "INSUFFICIENT_FUNDS"
INVALID_HASH == "INVALID_HASH"
INVALID_ADDRESS == "INVALID_ADDRESS"
INVALID_NONCE == "INVALID_NONCE"
INVALID_AMOUNT == "INVALID_AMOUNT"
SELF_TRANSFER == "SELF_TRANSFER"
INTERNAL_ERROR == "INTERNAL_ERROR"

NoDetails == [kind |-> "none"]

ErrorResponse(status, code, message, details) ==
  [status |-> status, code |-> code, message |-> message, details |-> details]

\* res.send({...}) without res.status : HTTP 200, no error code.
OkResponse(data) ==
  [status |-> 200, code |-> "", message |-> "", details |-> data]

(***************************************************************************)
(* POST /send.  The result of one run of the handler on the request body   *)
(* `body` against the ledger (bal, non): the response, the ledger it       *)
(* leaves, and whether it called scheduleSave.                             *)
(***************************************************************************)
Outcome(res, bal, non, scheduled) ==
  [res |-> res, balances |-> bal, nonces |-> non, scheduled |-> scheduled]

\* catch (error) : 500 with error.message as details.
InternalError(errorMessage) ==
  ErrorResponse(500, INTERNAL_ERROR, "Error processing transaction",
                [kind |-> "error", message |-> errorMessage])

\* value.toString() throws a TypeError on undefined and null.
toStringThrows(v) == v.k = "undefined" \/ v.k = "null"

\* Mutant: a nonce that was already used is accepted again.
nonceMismatchAcceptsStale(nonce, currentNonce) ==
  ~(IsNum(nonce) /\ nonce.f = 0 /\ nonce.n >= 1 /\ nonce.n <= currentNonce + 1)

\* Mutant: any nonce above the current one is accepted.
nonceMismatchAllowsSkip(nonce, currentNonce) ==
  ~(IsNum(nonce) /\ nonce.f = 0 /\ nonce.n > currentNonce)

\* Mutant: the nonce is compared with the current nonce, not its successor.
nonceMismatchOffByOne(nonce, currentNonce) ==
  ~(IsNum(nonce) /\ nonce.f = 0 /\ nonce.n = currentNonce)

\* Mutant: a nonce that is not below the current one is accepted.
nonceMismatchAllowsEqual(nonce, currentNonce) ==
  ~(IsNum(nonce) /\ nonce.f = 0 /\ nonce.n >= currentNonce)

\* nonce !== currentNonce + 1
nonceMismatch(nonce, currentNonce) ==
  ~(IsNum(nonce) /\ nonce.f = 0 /\ nonce.n = currentNonce + 1)

\* Mutant: only the "0x" prefixes are compared.
signerMismatchPrefixOnly(recoveredAddress, sender) ==
  SubSeq(toLowerCase(recoveredAddress), 1, 2) # SubSeq(toLowerCase(sender), 1, 2)

\* recoveredAddress.toLowerCase() !== sender.toLowerCase()
signerMismatch(recoveredAddress, sender) ==
  toLowerCase(recoveredAddress) # toLowerCase(sender)

\* sender.toLowerCase() === recipient.toLowerCase()
isSelfTransfer(sender, recipient) ==
  toLowerCase(sender) = toLowerCase(recipient)

\* Mutant: the comparison is off by one and lets the sender overdraw by 1.
insufficientFundsOffByOne(bal, sender, amount) == bal[sender] < amount - 1

\* Mutant: a transfer of the whole balance is refused.
insufficientFundsRejectsWholeBalance(bal, sender, amount) == bal[sender] <= amount

\* state.balances[sender] < amount
insufficientFunds(bal, sender, amount) == bal[sender] < amount

\* Mutant: the recipient is never credited.
commitBalancesDebitOnly(bal, sender, recipient, amount) ==
  [bal EXCEPT ![sender] = @ - amount]

\* Mutant: the recipient is credited one unit short.
commitBalancesShortCredit(bal, sender, recipient, amount) ==
  LET debited == [bal EXCEPT ![sender] = @ - amount]
  IN  [debited EXCEPT ![recipient] = @ + amount - 1]

\* Lines 269-273: debit, credit, nonce advance.
\* Mutant: every commit also pays a fee of 1 into the account AddrC.
commitBalancesWithFee(bal, sender, recipient, amount) ==
  LET debited == [bal EXCEPT ![sender] = @ - amount]
      credited == [debited EXCEPT ![recipient] = @ + amount]
  IN  Put(credited, AddrC, OrZero(credited, AddrC) + 1)

commitBalances(bal, sender, recipient, amount) ==
  LET debited == [bal EXCEPT ![sender] = @ - amount]
  IN  [debited EXCEPT ![recipient] = @ + amount]

\* Mutant: the nonce advance is forgotten.
commitNoncesForgotten(non, sender, nonce) == Put(non, sender, OrZero(non, sender))

commitNonces(non, sender, nonce) == Put(non, sender, nonce)

\* Mutant: the response reports the nonce the client should use next.
sendResponseNextNonce(bal, sender, recipient, nonce) ==
  OkResponse([kind |-> "sent", balance |-> bal[sender], newNonce |-> nonce + 1,
              recipient |-> [address |-> recipient, newBalance |-> bal[recipient]]])

\* Lines 280-287: the response of a committed send, read from the ledger
\* after the commit.
sendResponse(bal, sender, recipient, nonce) ==
  OkResponse([kind |-> "sent", balance |-> bal[sender], newNonce |-> nonce,
              recipient |-> [address |-> recipient, newBalance |-> bal[recipient]]])

\* Lines 253-287, after the signature check has passed.
settle(sender, recipient, amount, nonce, bal, non) ==
  LET bal1 == setInitialBalance(bal, sender)
      bal2 == setInitialBalance(bal1, recipient)
  IN  IF insufficientFunds(bal2, sender, amount)
        THEN Outcome(ErrorResponse(400, INSUFFICIENT_FUNDS, "Not enough funds",
                       [kind |-> "funds", required |-> Num(amount),
                        available |-> Num(bal2[sender])]),
                     bal2, non, FALSE)
      ELSE LET bal3 == commitBalances(bal2, sender, recipient, amount)
               non3 == commitNonces(non, sender, nonce)
           IN  Outcome(sendResponse(bal3, sender, recipient, nonce),
                       bal3, non3, TRUE)

\* Lines 227-229: the hash the server recomputes, over JSON.stringify of the
\* message object as it was parsed from the body.
computeHash(message) == bytesToHex(keccak_256(JSONstringify(message)))

\* Mutant: the hash supplied by the client is trusted without recomputing it.
hashMismatchNeverChecked(computedHash, messageHash) == FALSE

\* computedHash !== messageHash
hashMismatch(computedHash, messageHash) == computedHash # messageHash

\* Lines 212-251: nonce, hash and signature checks.
authenticate(message, signature, messageHash, bal, non) ==
  LET sender == Get(message, "sender").s
      recipient == Get(message, "recipient").s
      amount == Get(message, "amount")
      nonce == Get(message, "nonce")
      currentNonce == OrZero(non, sender)
      computedHash == computeHash(message)
  IN  IF nonceMismatch(nonce, currentNonce)
        THEN Outcome(ErrorResponse(400, INVALID_NONCE, "Invalid nonce",
                       [kind |-> "nonce", expected |-> Num(currentNonce + 1),
                        received |-> nonce]),
                     bal, non, FALSE)
      ELSE IF hashMismatch(computedHash, messageHash)
        THEN Outcome(ErrorResponse(400, INVALID_HASH, "Invalid message hash",
                                   NoDetails), bal, non, FALSE)
      ELSE LET recovered == verifySignatureAndGetAddress(messageHash, signature)
           IN  IF recovered.threw
                 THEN Outcome(InternalError(recovered.error), bal, non, FALSE)
               ELSE IF signerMismatch(recovered.value, sender)
                 THEN Outcome(ErrorResponse(401, INVALID_SIGNATURE,
                                "Invalid signature - authentication failed",
                                [kind |-> "signer", expected |-> Str(sender),
                                 recovered |-> Str(recovered.value)]),
                              bal, non, FALSE)
               ELSE settle(sender, recipient, amount.n, nonce.n, bal, non)

\* Lines 142-297: the whole handler.
postSend(body, bal, non) ==
  LET message == body.message
      signature == body.signature
      messageHash == body.messageHash
  IN  IF Falsy(message) \/ Falsy(signature) \/ Falsy(messageHash)
        THEN Outcome(ErrorResponse(400, INVALID_SIGNATURE,
                       "Missing required fields", NoDetails), bal, non, FALSE)
      ELSE LET sender == Get(message, "sender")
               recipient == Get(message, "recipient")
               amount == Get(message, "amount")
               nonce == Get(message, "nonce")
           IN  IF toStringThrows(amount) \/ toStringThrows(nonce)
                 THEN Outcome(InternalError("Cannot read properties of undefined"),
                              bal, non, FALSE)
               ELSE IF ~IsStr(sender)
                 THEN Outcome(InternalError("address.startsWith is not a function"),
                              bal, non, FALSE)
               ELSE IF ~isValidAddress(sender.s)
                 THEN Outcome(ErrorResponse(400, INVALID_ADDRESS,
                                "Invalid sender address format", NoDetails),
                              bal, non, FALSE)
               ELSE IF ~IsStr(recipient)
                 THEN Outcome(InternalError("address.startsWith is not a function"),
                              bal, non, FALSE)
               ELSE IF ~isValidAddress(recipient.s)
                 THEN Outcome(ErrorResponse(400, INVALID_ADDRESS,
                                "Invalid recipient address format", NoDetails),
                              bal, non, FALSE)
               ELSE IF isSelfTransfer(sender.s, recipient.s)
                 THEN Outcome(ErrorResponse(400, SELF_TRANSFER,
                                "Cannot transfer to yourself", NoDetails),
                              bal, non, FALSE)
               ELSE IF ~isValidAmount(amount)
                 THEN Outcome(ErrorResponse(400, INVALID_AMOUNT,
                                "Invalid amount", NoDetails), bal, non, FALSE)
               ELSE authenticate(message, signature, messageHash, bal, non)

(***************************************************************************)
(* GET /nonce/:address and GET /balance/:address.                          *)
(***************************************************************************)
\* Mutant: the handler answers with the nonce the client should use next.
getNonceNextExpected(address, non) ==
  IF ~isValidAddress(address)
    THEN ErrorResponse(400, INVALID_ADDRESS, "Invalid address format", NoDetails)
  ELSE OkResponse([kind |-> "nonce", nonce |-> OrZero(non, address) + 1])

getNonce(address, non) ==
  IF ~isValidAddress(address)
    THEN ErrorResponse(400, INVALID_ADDRESS, "Invalid address format", NoDetails)
  ELSE OkResponse([kind |-> "nonce", nonce |-> OrZero(non, address)])

getBalance(address, bal) ==
  IF ~isValidAddress(address)
    THEN ErrorResponse(400, INVALID_ADDRESS, "Invalid address format", NoDetails)
  ELSE OkResponse([kind |-> "balance", balance |-> OrZero(bal, address)])

(***************************************************************************)
(* Storage (storage.ts).                                                   *)
(***************************************************************************)
NoFile == [kind |-> "nofile"]
Corrupt == [kind |-> "corrupt"]
File(bal, non) == [kind |-> "file", balances |-> bal, nonces |-> non]

EmptyStorage == [balances |-> EmptyMap, nonces |-> EmptyMap]

loadStorage(file) ==
  IF file.kind = "corrupt" THEN Thrown("Failed to load storage")
  ELSE IF file.kind = "file"
    THEN Returned([balances |-> file.balances, nonces |-> file.nonces])
  ELSE Returned(EmptyStorage)

\* Mutant: the server always starts from the empty state.
initialStorageIgnoresFile(file) == EmptyStorage

\* index.ts lines 40-55: a failed load starts from the empty state.
initialStorage(file) ==
  LET storage == loadStorage(file)
  IN  IF storage.threw THEN EmptyStorage ELSE storage.value

\* setTimeout hands out a handle that is not pending.
newTimer(pending) == CHOOSE t \in 1..(Cardinality(pending) + 1) : t \notin pending

\* Mutant: scheduleSave starts a new timer without cancelling the pending one.
clearTimeoutForgotten(pending, handle) == pending

\* scheduleSave: the timers pending after clearTimeout(saveTimeout).
clearTimeout(pending, handle) == pending \ {handle}

(***************************************************************************)
(* Clients.                                                                *)
(***************************************************************************)
\* Mutant: the client puts the private key into the message it posts.
transferBodyWithKey(privateKey, sender, recipient, amount, nonce) ==
  LET message == Obj(<< <<"sender", Str(sender)>>, <<"recipient", Str(recipient)>>,
                        <<"amount", Num(amount)>>, <<"nonce", Num(nonce)>>,
                        <<"privateKey", Str(<<privateKey>>)>> >>)
      signed == signTransaction(privateKey, message)
  IN  [message |-> message, signature |-> signed.signature,
       messageHash |-> signed.messageHash]

\* Transfer.transfer lines 190-211: build the message, sign it, post it.
transferBody(privateKey, sender, recipient, amount, nonce) ==
  LET message == Obj(<< <<"sender", Str(sender)>>, <<"recipient", Str(recipient)>>,
                        <<"amount", Num(amount)>>, <<"nonce", Num(nonce)>> >>)
      signed == signTransaction(privateKey, message)
  IN  [message |-> message, signature |-> signed.signature,
       messageHash |-> signed.messageHash]

\* The stored ledger the server is started from.
StoredFile ==
  File((AddrA :> InitBalanceA) @@ (AddrB :> InitBalanceB), EmptyMap)

\* Bodies posted to the running server.  Each key holder may sign a transfer
\* along any route, so a body signed by k2 that names AddrA as sender is an
\* attempt to spend from an account whose key the signer does not hold.
Routes == {<<AddrA, AddrB>>, <<AddrB, AddrA>>, <<AddrA, AddrC>>}
Bodies ==
  { transferBody(k, rt[1], rt[2], a, n) :
      k \in Keys, rt \in Routes, a \in 1..MaxAmount, n \in 1..MaxNonce }

QueryAddresses == {AddrA, AddrC, <<"0", "x", "a">>}

(***************************************************************************)
(* Logging (logger/context.ts, logger/logger.ts).  A request's id is the   *)
(* UUID the logging middleware draws for it; here it is a token made of    *)
(* the request itself, <<request>>, and <<>> stands for an id that is not  *)
(* set.                                                                    *)
(***************************************************************************)
\* LogContext.create({operation, requestId, address})
LogContextCreate(operation, requestId, address) ==
  [operation |-> operation, requestId |-> requestId, address |-> address]

\* The context the logging middleware runs the rest of the request in.
middlewareContext(request) ==
  LogContextCreate("http-request", <<request>>, <<>>)

\* createLogObject: the entry written for a message under the context that
\* getLogContext() returns.
createLogObject(level, message, context) ==
  [level |-> level, message |-> message, requestId |-> context.requestId,
   operation |-> context.operation]

\* The entries written under one context for a sequence of <<level, message>>.
logAll(lines, context) ==
  [i \in 1..Len(lines) |-> createLogObject(lines[i][1], lines[i][2], context)]

\* What the POST /send handler writes inside its transaction context before
\* it answers with the response res.
transactionLines(res) ==
  LET validating == << <<"debug", "Validating transaction">> >>
      nonce == validating \o << <<"debug", "Verifying nonce">> >>
      hash == nonce \o << <<"debug", "Verifying message hash">> >>
      signature == hash \o << <<"debug", "Verifying signature">> >>
      funds == signature \o << <<"debug", "Checking balance">> >>
  IN  CASE res.status = 200 ->
             funds \o << <<"info", "Processing transaction">>,
                         <<"info", "Transaction successful">> >>
        [] res.code = INSUFFICIENT_FUNDS -> funds \o << <<"warn", "Insufficient funds">> >>
        [] res.code = INVALID_SIGNATURE ->
             signature \o << <<"error", "Signature verification failed">> >>
        [] res.code = INVALID_HASH -> hash \o << <<"error", "Invalid message hash">> >>
        [] res.code = INVALID_NONCE -> nonce \o << <<"warn", "Invalid nonce">> >>
        [] res.code = INVALID_AMOUNT -> validating \o << <<"warn", "Invalid amount">> >>
        [] res.code = SELF_TRANSFER ->
             validating \o << <<"warn", "Attempted self-transfer">> >>
        [] res.code = INVALID_ADDRESS ->
             validating \o << <<"warn", "Invalid address format">> >>
        [] OTHER -> validating

\* The entries written while POST /send is handled: the middleware's line,
\* then the handler's.  The presence check and the catch block log outside
\* the transaction context, which is created without a requestId.
sendLog(body, res) ==
  LET outer == middlewareContext(body)
      context == LogContextCreate("transaction", <<>>, <<>>)
      request == logAll(<< <<"info", "POST /send">> >>, outer)
  IN  IF res.message = "Missing required fields"
        THEN request \o logAll(<< <<"warn", "Missing required fields">> >>, outer)
      ELSE IF res.code = INTERNAL_ERROR
        THEN request
               \o (IF res.details.message = "Cannot read properties of undefined"
                     THEN <<>> ELSE logAll(transactionLines(res), context))
               \o logAll(<< <<"error", "Error processing transaction">> >>, outer)
      ELSE request \o logAll(transactionLines(res), context)

\* The entries written while GET /nonce or GET /balance is handled.
queryLog(operation, address, res) ==
  LET outer == middlewareContext(address)
      context == LogContextCreate(operation, <<>>, address)
  IN  logAll(<< <<"info", "GET">> >>, outer)
        \o logAll(IF res.status = 200 THEN << <<"debug", "retrieved">> >>
                  ELSE << <<"warn", "Invalid address format">> >>, context)

(***************************************************************************)
(* The state machine.                                                      *)
(***************************************************************************)
NoResponse == [op |-> "none"]

\* App's useState: no address typed, balance 0, no request issued.
InitialWallet ==
  [address |-> <<>>, balance |-> 0, issued |-> 0, current |-> 0, pending |-> {}]

Init ==
  /\ disk \in {NoFile, Corrupt, StoredFile}
  /\ balances = initialStorage(disk).balances
  /\ nonces = initialStorage(disk).nonces
  /\ saveTimeout = Null
  /\ timers = {}
  /\ up = TRUE
  /\ inflight = EmptyBag
  /\ last = NoResponse
  /\ committed = EmptyBag
  /\ wallet = InitialWallet

\* A POST /send body has been received and parsed; its handler is queued.
Arrive(body) ==
  /\ up
  /\ BagCardinality(inflight) < MaxInflight
  /\ inflight' = inflight (+) SetToBag({body})
  /\ last' = NoResponse
  /\ UNCHANGED <<balances, nonces, saveTimeout, timers, disk, up, committed, wallet>>

\* The POST /send handler runs on one in-flight body.
Handle(body) ==
  /\ up
  /\ BagIn(body, inflight)
  /\ LET out == postSend(body, balances, nonces)
         cleared == IF saveTimeout # Null
                      THEN clearTimeout(timers, saveTimeout.handle) ELSE timers
         handle == newTimer(cleared)
     IN  /\ balances' = out.balances
         /\ nonces' = out.nonces
         /\ IF out.scheduled
              THEN /\ timers' = cleared \cup {handle}
                   /\ saveTimeout' = [k |-> "timeout", handle |-> handle]
              ELSE UNCHANGED <<timers, saveTimeout>>
         /\ last' = [op |-> "send", req |-> body, res |-> out.res,
                     log |-> sendLog(body, out.res)]
         /\ committed' = IF out.res.status = 200
                           THEN committed (+) SetToBag({body}) ELSE committed
  /\ inflight' = inflight (-) SetToBag({body})
  /\ UNCHANGED <<disk, up, wallet>>

QueryNonce(address) ==
  /\ up
  /\ last' = [op |-> "nonce", req |-> address, res |-> getNonce(address, nonces),
              log |-> queryLog("nonce-query", address, getNonce(address, nonces))]
  /\ UNCHANGED <<balances, nonces, saveTimeout, timers, disk, up, inflight, committed,
               wallet>>

QueryBalance(address) ==
  /\ up
  /\ last' = [op |-> "balance", req |-> address, res |-> getBalance(address, balances),
              log |-> queryLog("balance-query", address, getBalance(address, balances))]
  /\ UNCHANGED <<balances, nonces, saveTimeout, timers, disk, up, inflight, committed,
               wallet>>

\* The save timer fires and saveStorage writes the file.
SaveFires(t) ==
  /\ up
  /\ t \in timers
  /\ timers' = timers \ {t}
  /\ disk' = File(balances, nonces)
  /\ saveTimeout' = Null
  /\ last' = [op |-> "save", failed |-> FALSE]
  /\ UNCHANGED <<balances, nonces, up, inflight, committed, wallet>>

\* The save timer fires and writeFileSync throws: saveStorage rethrows out of
\* the timer callback, nothing handles it, and the process exits.
SaveFails(t) ==
  /\ up
  /\ t \in timers
  /\ timers' = {}
  /\ disk' \in {disk, Corrupt}
  /\ up' = FALSE
  /\ last' = [op |-> "save", failed |-> TRUE]
  /\ UNCHANGED <<balances, nonces, saveTimeout, inflight, committed, wallet>>

\* The server with requests arriving one at a time.
Next ==
  \/ \E body \in Bodies : inflight = EmptyBag /\ Arrive(body)
  \/ \E body \in BagToSet(inflight) : Handle(body)
  \/ \E address \in QueryAddresses : QueryNonce(address)
  \/ \E address \in QueryAddresses : QueryBalance(address)

Spec == Init /\ [][Next]_vars

\* The server with up to MaxInflight requests in flight together, each signed
\* by the holder of the key of the account it names as sender.
OwnBodies ==
  { body \in Bodies :
      \E k \in Keys : /\ body.signature.s[1].by = k
                       /\ Get(body.message, "sender").s = publicKeyToAddress(getPublicKey(k)) }

NextConcurrent ==
  \/ \E body \in OwnBodies : Arrive(body)
  \/ \E body \in BagToSet(inflight) : Handle(body)
  \/ \E address \in QueryAddresses : QueryNonce(address)
  \/ \E address \in QueryAddresses : QueryBalance(address)

SpecConcurrent == Init /\ [][NextConcurrent]_vars

(***************************************************************************)
(* The validation pipeline on its own: one request body, drawn from every  *)
(* combination of well-formed, malformed, tampered and missing parts, is   *)
(* in flight against a ledger loaded from a stored file, and is handled.   *)
(***************************************************************************)
\* The message object with the given field values; undefined fields are absent.
mkMessage(sender, recipient, amount, nonce) ==
  LET present(p) == p[2] # Undefined
  IN  Obj(SelectSeq(<< <<"sender", sender>>, <<"recipient", recipient>>,
                       <<"amount", amount>>, <<"nonce", nonce>> >>, present))

\* The intent a signature or hash was made for before the message was changed.
StaleMessage == mkMessage(Str(AddrB), Str(AddrC), Num(1), Num(1))

HashKinds == {"honest", "stale", "missing"}
SigKinds == {"k1", "k2", "k1stale", "short", "garbled", "missing"}

mkBody(message, hashKind, sigKind) ==
  LET honest == keccak_256(JSONstringify(message))
      stale == keccak_256(JSONstringify(StaleMessage))
      hash == CASE hashKind = "honest" -> bytesToHex(honest)
                [] hashKind = "stale" -> bytesToHex(stale)
                [] OTHER -> Undefined
      sig == CASE sigKind = "k1" -> bytesToHex(sign(honest, "k1"))
               [] sigKind = "k2" -> bytesToHex(sign(honest, "k2"))
               [] sigKind = "k1stale" -> bytesToHex(sign(stale, "k1"))
               [] sigKind = "short" ->
                    bytesToHex([sign(honest, "k1") EXCEPT !.len = SignatureBytes - 1])
               [] sigKind = "garbled" ->
                    bytesToHex([sign(honest, "k1") EXCEPT !.wellformed = FALSE])
               [] OTHER -> Undefined
  IN  [message |-> message, signature |-> sig, messageHash |-> hash]

PipelineSenders == {Undefined, Str(AddrA), Str(AddrAUpper), Str(<<"0", "x", "a">>)}
PipelineRecipients == {Undefined, Str(AddrA), Str(AddrB), Str(<<"a", "b">>)}
PipelineAmounts ==
  {Undefined, Str(<<"1">>), Num(-1), Num(0), Num(1), Num(InitBalanceA + 1),
   NumHalf(1), Num(AmountCap), Num(AmountCap + 1)}
PipelineNonces == {Undefined, NumHalf(1)} \cup {Num(n) : n \in 0..(MaxNonce + 1)}

PipelineBodies ==
  { mkBody(mkMessage(s, r, a, n), h, g) :
      s \in PipelineSenders, r \in PipelineRecipients, a \in PipelineAmounts,
      n \in PipelineNonces, h \in HashKinds, g \in SigKinds }
  \cup { [message |-> Undefined, signature |-> mkBody(StaleMessage, h, g).signature,
          messageHash |-> mkBody(StaleMessage, h, g).messageHash] :
           h \in HashKinds, g \in SigKinds }

\* Files the server may be started from: none, the stored ledger, and the
\* stored ledger after AddrA has already sent once.
PipelineFiles ==
  {NoFile, StoredFile,
   File((AddrA :> InitBalanceA) @@ (AddrB :> InitBalanceB), (AddrA :> 1))}

InitPipeline ==
  /\ disk \in PipelineFiles
  /\ balances = initialStorage(disk).balances
  /\ nonces = initialStorage(disk).nonces
  /\ saveTimeout = Null
  /\ timers = {}
  /\ up = TRUE
  /\ \E body \in PipelineBodies : inflight = SetToBag({body})
  /\ last = NoResponse
  /\ committed = EmptyBag
  /\ wallet = InitialWallet

NextPipeline == \E body \in BagToSet(inflight) : Handle(body)

SpecPipeline == InitPipeline /\ [][NextPipeline]_vars

(***************************************************************************)
(* Tampering: a client signed the intent `signed` with its key, and the    *)
(* body that reaches the server carries another intent, `message`, with    *)
(* the signature made over `signed` and a hash chosen by the sender of the *)
(* body: the one made over `signed`, or one recomputed over `message`.     *)
(***************************************************************************)
tamperedBody(privateKey, signed, message, hashOver) ==
  LET made == signTransaction(privateKey, signed)
  IN  [message |-> message, signature |-> made.signature,
       messageHash |-> IF hashOver = "signed" THEN made.messageHash
                       ELSE bytesToHex(keccak_256(JSONstringify(message)))]

TamperSenders == {Str(AddrA), Str(AddrB), Str(AddrAUpper), Str(<<"0", "x", "a">>)}
TamperRecipients == {Str(AddrA), Str(AddrB), Str(AddrC)}
TamperAmounts == {Num(a) : a \in (0..MaxAmount) \cup {AmountCap + 1}}
TamperNonces == {Num(n) : n \in 0..MaxNonce}

\* The intents a client may sign: all four fields present, in the order the
\* client writes them.
Intents ==
  { mkMessage(s, r, a, n) : s \in TamperSenders, r \in TamperRecipients,
                            a \in TamperAmounts, n \in TamperNonces }

\* The number of fields in which two intents differ.
FieldsChanged(m1, m2) ==
  Cardinality({i \in 1..Len(m1.fields) : m1.fields[i] # m2.fields[i]})

TamperBodies ==
  { tamperedBody(k, pr[1], pr[2], h) :
      k \in Keys, h \in {"signed", "message"},
      pr \in {q \in Intents \X Intents : FieldsChanged(q[1], q[2]) <= 1} }

InitTamper ==
  /\ disk \in PipelineFiles
  /\ balances = initialStorage(disk).balances
  /\ nonces = initialStorage(disk).nonces
  /\ saveTimeout = Null
  /\ timers = {}
  /\ up = TRUE
  /\ \E body \in TamperBodies : inflight = SetToBag({body})
  /\ last = NoResponse
  /\ committed = EmptyBag
  /\ wallet = InitialWallet

NextTamper == \E body \in BagToSet(inflight) : Handle(body)

SpecTamper == InitTamper /\ [][NextTamper]_vars

(***************************************************************************)
(* The server with its deferred save: every commit arms the save timer,    *)
(* which later fires and writes the file, or fires and fails to write it.  *)
(***************************************************************************)
StorageBodies ==
  { transferBody("k1", AddrA, AddrB, 1, n) : n \in 1..MaxNonce }
    \cup {transferBody("k2", AddrB, AddrA, 1, 1)}

StorageQueries == {AddrA, AddrB}

NextStorage ==
  \/ \E body \in StorageBodies : Arrive(body)
  \/ \E body \in BagToSet(inflight) : Handle(body)
  \/ \E address \in StorageQueries : QueryNonce(address)
  \/ \E address \in StorageQueries : QueryBalance(address)
  \/ \E t \in timers : SaveFires(t)
  \/ \E t \in timers : SaveFails(t)

SpecStorage == Init /\ [][NextStorage]_vars

(***************************************************************************)
(* The client (Wallet, Transfer) in front of the server.  What the user    *)
(* typed, the private key included, is an input of each handler; the       *)
(* requests the handlers send are the server's steps.                      *)
(***************************************************************************)
TypedKeys == Keys \cup {"notakey"}
TypedAddresses == {AddrA, <<"0", "x", "a">>}
TypedRecipients == {AddrB, AddrC}

\* Wallet.onPrivateKeyChange: derive the address; if the key is well formed,
\* GET balance/<derived address>.
onPrivateKeyChange(newPrivateKey) ==
  LET derivedAddress == deriveAddress(newPrivateKey)
  IN  /\ derivedAddress # <<>>
      /\ QueryBalance(derivedAddress)

\* Transfer.transfer up to its first await: GET nonce/<address>.
transferNonce(address) == QueryNonce(address)

\* Transfer.transfer after the nonce has come back: build the message, sign
\* it with the private key, POST send.
transferSend(privateKey, recipient, amount) ==
  /\ last.op = "nonce" /\ last.res.status = 200
  /\ last.res.details.nonce + 1 <= MaxNonce
  /\ Arrive(transferBody(privateKey, last.req, recipient, amount,
                         last.res.details.nonce + 1))

NextClient ==
  \/ \E k \in TypedKeys : onPrivateKeyChange(k)
  \/ \E address \in TypedAddresses : transferNonce(address)
  \/ \E k \in Keys, recipient \in TypedRecipients, amount \in 1..MaxAmount :
        transferSend(k, recipient, amount)
  \/ \E body \in BagToSet(inflight) : Handle(body)

SpecClient == Init /\ [][NextClient]_vars

(***************************************************************************)
(* Address derivation on bytes.  Elsewhere a key pair is an atom and its   *)
(* address a fixed string; here the three derivations in the repository    *)
(* are written out step by step on byte sequences.  The curve              *)
(* multiplication and Keccak-256 are each replaced by one fixed function   *)
(* of the right input and output sizes, used by all three.                 *)
(***************************************************************************)
PrivateKeyBytes == 32
PublicKeyBytes == 65
DigestBytes == 32
AddressBytes == 20
PrivateKeyHexLen == 64

HexChars == <<"0", "1", "2", "3", "4", "5", "6", "7", "8", "9",
              "a", "b", "c", "d", "e", "f">>

UpperChar(c) ==
  CASE c = "a" -> "A" [] c = "b" -> "B" [] c = "c" -> "C"
    [] c = "d" -> "D" [] c = "e" -> "E" [] c = "f" -> "F" [] OTHER -> c

toUpperCase(s) == [i \in DOMAIN s |-> UpperChar(s[i])]

\* secp.etc.bytesToHex / toHex : two lower-case hex digits per byte.
bytesToHexDigits(bytes) ==
  [i \in 1..(2 * Len(bytes)) |->
     IF i % 2 = 1 THEN HexChars[(bytes[(i + 1) \div 2] \div 16) + 1]
                  ELSE HexChars[(bytes[i \div 2] % 16) + 1]]

hexDigitValue(c) == CHOOSE v \in 0..15 : HexChars[v + 1] = LowerChar(c)

\* secp.etc.hexToBytes : digits of either case.
hexToBytes(hex) ==
  [i \in 1..(Len(hex) \div 2) |->
     16 * hexDigitValue(hex[2 * i - 1]) + hexDigitValue(hex[2 * i])]

\* bytes.slice(start) and bytes.slice(-n)
slice(bytes, start) == SubSeq(bytes, start + 1, Len(bytes))
sliceLast(bytes, n) == SubSeq(bytes, Len(bytes) - n + 1, Len(bytes))

\* Stands for keccak_256 / keccak256: 32 bytes determined by the input bytes
\* and their number.
keccakBytes(bytes) ==
  [i \in 1..DigestBytes |->
     (bytes[i] + 3 * bytes[Len(bytes) - i + 1] + Len(bytes) + 17 * i) % 251]

\* Stands for secp.getPublicKey(privateKey, false): the prefix byte 0x04 and
\* 64 bytes determined by the private key.
getPublicKeyBytes(privateKey) ==
  <<4>> \o [i \in 1..(PublicKeyBytes - 1) |->
            (privateKey[((i - 1) % PrivateKeyBytes) + 1] + i) % 256]

\* Mutant: the prefix byte is hashed with the key.
publicKeyToAddressKeepsPrefix(publicKey) ==
  <<"0", "x">> \o bytesToHexDigits(sliceLast(keccakBytes(publicKey), AddressBytes))

\* Server crypto.ts: publicKeyToAddress.
publicKeyToAddressBytes(publicKey) ==
  LET publicKeyWithoutPrefix == slice(publicKey, 1)
      hash == keccakBytes(publicKeyWithoutPrefix)
      addressBytes == sliceLast(hash, AddressBytes)
  IN  <<"0", "x">> \o bytesToHexDigits(addressBytes)

\* Client Wallet.tsx: deriveAddress, from the text typed as private key.
deriveAddressFromText(privateKey) ==
  LET cleanPrivKey == IF startsWith0x(privateKey) THEN slice(privateKey, 2)
                      ELSE privateKey
  IN  IF ~(/\ Len(cleanPrivKey) = PrivateKeyHexLen
           /\ \A i \in 1..Len(cleanPrivKey) : cleanPrivKey[i] \in HexDigits)
        THEN <<>>
      ELSE LET publicKey == getPublicKeyBytes(hexToBytes(cleanPrivKey))
               publicKeyWithoutPrefix == slice(publicKey, 1)
               hash == keccakBytes(publicKeyWithoutPrefix)
               addressBytes == sliceLast(hash, AddressBytes)
           IN  <<"0", "x">> \o bytesToHexDigits(addressBytes)

\* Key generation script: generateKeyPair, for the random key drawn.
generateKeyPair(privateKey) ==
  LET publicKey == getPublicKeyBytes(privateKey)
      publicKeyWithoutPrefix == slice(publicKey, 1)
      hash == keccakBytes(publicKeyWithoutPrefix)
      address == sliceLast(hash, AddressBytes)
  IN  [privateKey |-> bytesToHexDigits(privateKey),
       publicKey |-> bytesToHexDigits(publicKey),
       address |-> <<"0", "x">> \o bytesToHexDigits(address)]

\* Private keys: 16 bytes of one value followed by 16 bytes of another.
KeyByteValues == {1, 170, 187, 240, 255}
PrivateKeys ==
  { Rep(a, PrivateKeyBytes \div 2) \o Rep(b, PrivateKeyBytes \div 2) :
      a \in KeyByteValues, b \in KeyByteValues }

\* The ways the holder of a key may type it, and two texts that are no key.
TextsOf(privateKey) ==
  LET hex == bytesToHexDigits(privateKey)
  IN  {hex, toUpperCase(hex), <<"0", "x">> \o hex, <<"0", "x">> \o toUpperCase(hex)}

KeyTexts ==
  UNION { TextsOf(p) : p \in PrivateKeys }
    \cup {Rep("a", PrivateKeyHexLen - 1), Rep("g", PrivateKeyHexLen)}

\* Wallet.onPrivateKeyChange on the typed text.
onPrivateKeyTyped(newPrivateKey) ==
  LET derivedAddress == deriveAddressFromText(newPrivateKey)
  IN  /\ derivedAddress # <<>>
      /\ QueryBalance(derivedAddress)

\* The holder of a generated key pair enters the printed address, and
\* Transfer.transfer asks for its nonce.
NextDerive ==
  \/ \E text \in KeyTexts : onPrivateKeyTyped(text)
  \/ \E p \in PrivateKeys : transferNonce(generateKeyPair(p).address)

SpecDerive == Init /\ [][NextDerive]_vars

(***************************************************************************)
(* Payload shapes: the same four intent values written as the client       *)
(* writes them, with the keys in another order, or with the optional       *)
(* timestamp field of TransactionMessage added; signed and hashed over one *)
(* shape and sent in another.                                              *)
(***************************************************************************)
Shapes == {"client", "reordered", "timestamp"}

Shaped(message, shape) ==
  CASE shape = "reordered" ->
         Obj(<<message.fields[2], message.fields[1],
               message.fields[4], message.fields[3]>>)
    [] shape = "timestamp" -> Obj(Append(message.fields, <<"timestamp", Num(1)>>))
    [] OTHER -> message

ShapedIntents ==
  { mkMessage(Str(AddrA), Str(r), Num(a), Num(n)) :
      r \in {AddrB, AddrC}, a \in 1..MaxAmount, n \in 1..MaxNonce }

shapedBody(privateKey, message, sent, hashed) ==
  LET made == signTransaction(privateKey, Shaped(message, hashed))
  IN  [message |-> Shaped(message, sent), signature |-> made.signature,
       messageHash |-> made.messageHash]

ShapedBodies ==
  { shapedBody(k, m, sent, hashed) :
      k \in Keys, m \in ShapedIntents, sent \in Shapes, hashed \in Shapes }

InitShaped ==
  /\ disk \in PipelineFiles
  /\ balances = initialStorage(disk).balances
  /\ nonces = initialStorage(disk).nonces
  /\ saveTimeout = Null
  /\ timers = {}
  /\ up = TRUE
  /\ \E body \in ShapedBodies : inflight = SetToBag({body})
  /\ last = NoResponse
  /\ committed = EmptyBag
  /\ wallet = InitialWallet

NextShaped == \E body \in BagToSet(inflight) : Handle(body)

SpecShaped == InitShaped /\ [][NextShaped]_vars

(***************************************************************************)
(* Address strings put to the GET handlers: well-formed ones in lower,     *)
(* upper and mixed case, and strings that miss the format by a prefix, a   *)
(* length, a character or a trailing character.                            *)
(***************************************************************************)
\* The string s with its i-th character replaced by c.
WithChar(s, i, c) == [s EXCEPT ![i] = c]

AddressCandidates ==
  { Addr(c) : c \in {"0", "9", "a", "f", "A", "F", "g", "G", "x", " "} }
  \cup { p \o Rep("a", AddrHexLen) :
            p \in {<<>>, <<"0">>, <<"x">>, <<"0", "X">>, <<"x", "0">>,
                    <<"1", "x">>, <<" ", "0", "x">>, <<"a", "a">>} }
  \cup { <<"0", "x">> \o Rep("b", n) :
            n \in {0, 1, AddrHexLen - 1, AddrHexLen + 1, 2 * AddrHexLen} }
  \cup { WithChar(AddrAUpper, i, c) :
            i \in {3, AddrHexLen \div 2, AddrHexLen + 2}, c \in {"b", "g", "-"} }
  \cup { AddrA \o t : t \in {<<"\n">>, <<" ">>, <<"0">>, <<"0", "x">>} }

NextAddress ==
  \/ \E address \in AddressCandidates : QueryNonce(address)
  \/ \E address \in AddressCandidates : QueryBalance(address)

SpecAddress == Init /\ [][NextAddress]_vars

(***************************************************************************)
(* Vocabulary of the properties.                                           *)
(***************************************************************************)
TypeOK ==
  /\ \A a \in DOMAIN balances : balances[a] \in Int
  /\ \A a \in DOMAIN nonces : nonces[a] \in Nat
  /\ up \in BOOLEAN

\* What queryBalance / queryNonce report for an address in a ledger.
balanceOf(bal, a) == OrZero(bal, a)
nonceOf(non, a) == OrZero(non, a)

\* Every address string that occurs in the ledger before or after a step.
Seen(bal1, non1, bal2, non2) ==
  (DOMAIN bal1) \cup (DOMAIN non1) \cup (DOMAIN bal2) \cup (DOMAIN non2)

SenderOf(body) == Get(body.message, "sender").s
RecipientOf(body) == Get(body.message, "recipient").s
AmountOf(body) == Get(body.message, "amount").n
NonceOf(body) == Get(body.message, "nonce").n

\* The key that made the body's signature, and the digest it was made over.
SignerOf(body) == body.signature.s[1].by
SignedDigestOf(body) == body.signature.s[1].over

\* The address of the account a private key controls.
AddressOfKey(k) == publicKeyToAddress(getPublicKey(k))

\* The step just taken ran the POST /send handler and it committed / rejected.
SendStep == last'.op = "send"
CommitStep == last'.op = "send" /\ last'.res.status = 200
RejectStep == last'.op = "send" /\ last'.res.status # 200

(***************************************************************************)
(* C1  Authorization.                                                      *)
(***************************************************************************)
\* In a step that lowers the balance of an address or changes its nonce, the
\* handler committed a body that names that address as sender and carries a
\* signature made over this very message by the key of that address.
DebitIsAuthorized ==
  \A a \in Seen(balances, nonces, balances', nonces') :
    (\/ balanceOf(balances', a) < balanceOf(balances, a)
     \/ nonceOf(nonces', a) # nonceOf(nonces, a))
      => /\ CommitStep
         /\ SenderOf(last'.req) = a
         /\ \E k \in Keys : /\ SignerOf(last'.req) = k
                            /\ AddressOfKey(k) = toLowerCase(a)
         /\ SignedDigestOf(last'.req) = keccak_256(JSONstringify(last'.req.message))

\* As long as nothing signed by a key has been committed, the account of that
\* key holds at least its initial balance and its nonce has not moved.
UntouchedWithoutOwnSignature ==
  \A k \in Keys :
    (\A body \in BagToSet(committed) : SignerOf(body) # k)
      => /\ balanceOf(balances, AddressOfKey(k))
              >= balanceOf(initialStorage(disk).balances, AddressOfKey(k))
         /\ nonceOf(nonces, AddressOfKey(k))
              = nonceOf(initialStorage(disk).nonces, AddressOfKey(k))

\* C1: the balance of an address decreases, and its nonce advances, only by a
\* committed send that names it as sender and is signed by its own key; no run
\* of submissions signed by other keys lowers its balance or moves its nonce.
Authorization == [][DebitIsAuthorized]_vars /\ []UntouchedWithoutOwnSignature

\* C1 witness: a body signed by k2 that names AddrA as sender, with the nonce
\* AddrA is due and an amount AddrA can afford, was rejected as unauthenticated.
ForgeryRejected ==
  /\ last.op = "send"
  /\ SenderOf(last.req) = AddrA
  /\ SignerOf(last.req) = "k2"
  /\ NonceOf(last.req) = nonceOf(nonces, AddrA) + 1
  /\ AmountOf(last.req) <= balanceOf(balances, AddrA)
  /\ last.res.status = 401
  /\ last.res.code = INVALID_SIGNATURE

(***************************************************************************)
(* C2  Replay rejection.                                                   *)
(***************************************************************************)
\* The handler runs on a body that was committed before this step.
ReplayStep == SendStep /\ BagIn(last'.req, committed)

ReplayIsRejected ==
  ReplayStep =>
    /\ last'.res.code = INVALID_NONCE
    /\ balances' = balances
    /\ nonces' = nonces
    /\ (nonceOf(nonces, SenderOf(last'.req)) = 1 /\ NonceOf(last'.req) = 1)
         => /\ last'.res.details.expected = Num(2)
            /\ last'.res.details.received = Num(1)

\* C2: whenever a body that was committed earlier is submitted again, it is
\* rejected with INVALID_NONCE and the ledger is unchanged; resent while the
\* sender's nonce is still 1, the details are expected 2, received 1.
ReplayRejection == [][ReplayIsRejected]_vars

\* C2 witness: the sender's first committed body was handled a second time and
\* answered INVALID_NONCE with expected 2, received 1.
ReplayWasRejected ==
  /\ last.op = "send"
  /\ BagIn(last.req, committed)
  /\ last.res.code = INVALID_NONCE
  /\ last.res.details.expected = Num(2)
  /\ last.res.details.received = Num(1)

(***************************************************************************)
(* C3  No double spend under concurrency.                                  *)
(***************************************************************************)
SameSenderAndNonce(b1, b2) ==
  SenderOf(b1) = SenderOf(b2) /\ NonceOf(b1) = NonceOf(b2)

AtMostOneCommit ==
  \A b1, b2 \in BagToSet(committed) :
    SameSenderAndNonce(b1, b2) => (b1 = b2 /\ CopiesIn(b1, committed) = 1)

LoserIsRejected ==
  (SendStep /\ \E c \in BagToSet(committed) : SameSenderAndNonce(c, last'.req))
    => /\ last'.res.code = INVALID_NONCE
       /\ balances' = balances
       /\ nonces' = nonces

\* C3: of the requests of one sender that carry the same nonce, in whatever
\* order the handlers of the in-flight requests run, at most one commits, and
\* each one handled after it is rejected with INVALID_NONCE.
NoDoubleSpend == []AtMostOneCommit /\ [][LoserIsRejected]_vars

\* C3 witness: a body committed while an identical body, which was valid
\* against the same earlier state, is still in flight.
RaceInFlight ==
  /\ last.op = "send"
  /\ last.res.status = 200
  /\ BagIn(last.req, inflight)

(***************************************************************************)
(* C4  Atomic commit.                                                      *)
(***************************************************************************)
RECURSIVE AmountSum(_)
AmountSum(bodies) ==
  IF bodies = {} THEN 0
  ELSE LET b == CHOOSE x \in bodies : TRUE
       IN  AmountOf(b) * CopiesIn(b, committed) + AmountSum(bodies \ {b})

RECURSIVE CommitCount(_)
CommitCount(bodies) ==
  IF bodies = {} THEN 0
  ELSE LET b == CHOOSE x \in bodies : TRUE
       IN  CopiesIn(b, committed) + CommitCount(bodies \ {b})

SentBy(a) == AmountSum({b \in BagToSet(committed) : SenderOf(b) = a})
ReceivedBy(a) == AmountSum({b \in BagToSet(committed) : RecipientOf(b) = a})
CommitsBy(a) == CommitCount({b \in BagToSet(committed) : SenderOf(b) = a})

\* C4: in every state a query or another submission can observe, the ledger
\* shows each committed transaction with its debit, its credit and its nonce
\* advance all applied, and nothing else: no commit is ever partly visible.
AtomicCommit ==
  \A a \in Seen(balances, nonces,
               initialStorage(disk).balances, initialStorage(disk).nonces) :
    /\ balanceOf(balances, a)
         = balanceOf(initialStorage(disk).balances, a) - SentBy(a) + ReceivedBy(a)
    /\ nonceOf(nonces, a) = nonceOf(initialStorage(disk).nonces, a) + CommitsBy(a)

\* C4 witness: with a request still in flight, a nonce query for AddrA answered
\* 1 after AddrA's first commit, and the debit of that commit is visible too.
QueryAfterCommit ==
  /\ last.op = "nonce"
  /\ last.req = AddrA
  /\ last.res.details.nonce = 1
  /\ balanceOf(balances, AddrA) < balanceOf(initialStorage(disk).balances, AddrA)
  /\ inflight # EmptyBag

(***************************************************************************)
(* C5  Conservation.                                                       *)
(***************************************************************************)
CommitConserves ==
  CommitStep =>
    LET s == SenderOf(last'.req)
        r == RecipientOf(last'.req)
        amt == AmountOf(last'.req)
    IN  /\ balanceOf(balances', s) = balanceOf(balances, s) - amt
        /\ balanceOf(balances', r) = balanceOf(balances, r) + amt
        /\ balanceOf(balances', s) + balanceOf(balances', r)
             = balanceOf(balances, s) + balanceOf(balances, r)

\* C5: every commit lowers the sender's balance by exactly the amount, raises
\* the recipient's by exactly the amount, and leaves their sum unchanged.
Conservation == [][CommitConserves]_vars

\* C5 witness: a commit of amount 2 to AddrC, which had no balance entry,
\* left AddrC with exactly 2.
CommitToUnseenRecipient ==
  /\ last.op = "send"
  /\ last.res.status = 200
  /\ RecipientOf(last.req) = AddrC
  /\ AmountOf(last.req) = 2
  /\ balanceOf(balances, AddrC) = 2
  /\ last.res.details.recipient.newBalance = 2

(***************************************************************************)
(* C6  Monotonic nonce.                                                    *)
(***************************************************************************)
NonceMoves ==
  \A a \in Seen(balances, nonces, balances', nonces') :
    /\ nonceOf(nonces', a) >= nonceOf(nonces, a)
    /\ nonceOf(nonces', a) # nonceOf(nonces, a)
         => (CommitStep /\ SenderOf(last'.req) = a)
    /\ (CommitStep /\ SenderOf(last'.req) = a)
         => nonceOf(nonces', a) = nonceOf(nonces, a) + 1

\* C6: the nonce of an address never decreases, changes only in a step that
\* commits a send from that address, and grows by exactly 1 in each such step.
MonotonicNonce == [][NonceMoves]_vars

\* C6 witness: AddrA committed a second send and its nonce stands at 2.
SecondCommit ==
  /\ last.op = "send"
  /\ last.res.status = 200
  /\ SenderOf(last.req) = AddrA
  /\ last.res.details.newNonce = 2
  /\ nonceOf(nonces, AddrA) = 2

(***************************************************************************)
(* C7  Non-negative balances.                                              *)
(***************************************************************************)
\* C7: every balance in the ledger is a non-negative integer, and the balance
\* reported for a valid address that has no entry is 0.
NonNegativeBalances ==
  /\ \A a \in DOMAIN balances : balances[a] \in Nat
  /\ \A a \in {AddrA, AddrB, AddrC} :
       a \notin DOMAIN balances
         => /\ getBalance(a, balances).status = 200
            /\ getBalance(a, balances).details.balance = 0

\* C7 witness: a send of the sender's whole balance committed and left it at 0,
\* while AddrC still has no entry.
WholeBalanceSent ==
  /\ last.op = "send"
  /\ last.res.status = 200
  /\ last.res.details.balance = 0
  /\ balances[SenderOf(last.req)] = 0
  /\ AddrC \notin DOMAIN balances

(***************************************************************************)
(* C8  A rejection changes nothing.                                        *)
(***************************************************************************)
\* C8: a step in which the handler rejects a body, whatever the code, leaves
\* the balances and nonces mappings exactly as they were, entries included.
RejectionChangesNothing ==
  [][RejectStep => (balances' = balances /\ nonces' = nonces)]_vars

(***************************************************************************)
(* C9  Fail-fast ordering.                                                 *)
(***************************************************************************)
MISSING_FIELDS == "MISSING_FIELDS"

\* The code of the earliest rule, in the order presence, sender format,
\* recipient format, self-transfer, amount, nonce, hash, signature, funds,
\* that the body violates against the ledger (bal, non); "" if it violates none.
FirstViolatedCode(body, bal, non) ==
  LET sender == Get(body.message, "sender")
      recipient == Get(body.message, "recipient")
      amount == Get(body.message, "amount")
      nonce == Get(body.message, "nonce")
  IN  IF \/ body.message = Undefined \/ body.signature = Undefined
         \/ body.messageHash = Undefined
        THEN MISSING_FIELDS
      ELSE IF ~(IsStr(sender) /\ isValidAddress(sender.s)) THEN INVALID_ADDRESS
      ELSE IF ~(IsStr(recipient) /\ isValidAddress(recipient.s)) THEN INVALID_ADDRESS
      ELSE IF toLowerCase(sender.s) = toLowerCase(recipient.s) THEN SELF_TRANSFER
      ELSE IF ~isValidAmount(amount) THEN INVALID_AMOUNT
      ELSE IF nonce # Num(nonceOf(non, sender.s) + 1) THEN INVALID_NONCE
      ELSE IF body.messageHash # bytesToHex(keccak_256(JSONstringify(body.message)))
        THEN INVALID_HASH
      ELSE IF LET recovered == verifySignatureAndGetAddress(body.messageHash,
                                                            body.signature)
              IN  recovered.threw
                    \/ toLowerCase(recovered.value) # toLowerCase(sender.s)
        THEN INVALID_SIGNATURE
      ELSE IF balanceOf(bal, sender.s) < amount.n THEN INSUFFICIENT_FUNDS
      ELSE ""

\* C9: a body that violates one or more rules is answered with the code of the
\* earliest rule it violates; the code of a later check is never returned.
FailFastOrdering ==
  [][SendStep =>
       (FirstViolatedCode(last'.req, balances, nonces) # ""
          => last'.res.code = FirstViolatedCode(last'.req, balances, nonces))]_vars

(***************************************************************************)
(* C10  Nonce check.                                                       *)
(***************************************************************************)
\* The body carries every part, its message carries all four fields, and it
\* passes the address, self-transfer and amount checks.
ReachesNonceCheck(body) ==
  LET sender == Get(body.message, "sender")
      recipient == Get(body.message, "recipient")
  IN  /\ body.message # Undefined /\ body.signature # Undefined
      /\ body.messageHash # Undefined
      /\ Get(body.message, "nonce") # Undefined
      /\ IsStr(sender) /\ isValidAddress(sender.s)
      /\ IsStr(recipient) /\ isValidAddress(recipient.s)
      /\ toLowerCase(sender.s) # toLowerCase(recipient.s)
      /\ isValidAmount(Get(body.message, "amount"))

NonceIsChecked ==
  (SendStep /\ ReachesNonceCheck(last'.req)) =>
    LET current == nonceOf(nonces, SenderOf(last'.req))
        nonce == Get(last'.req.message, "nonce")
    IN  IF nonce = Num(current + 1)
          THEN last'.res.code \in {INVALID_HASH, INVALID_SIGNATURE, INTERNAL_ERROR,
                                   INSUFFICIENT_FUNDS, ""}
        ELSE /\ last'.res.status = 400
             /\ last'.res.code = INVALID_NONCE
             /\ last'.res.details.expected = Num(current + 1)
             /\ last'.res.details.received = nonce

\* C10: a body that reaches the nonce check passes it iff its nonce is the
\* sender's current nonce (0 if unseen) plus 1; any other nonce is rejected
\* with INVALID_NONCE, expected = current nonce + 1, received = the nonce sent.
NonceCheck == [][NonceIsChecked]_vars

\* C10 witness: with AddrA's nonce at 1, a body that skips ahead to nonce 3 was
\* rejected with expected 2, received 3.
SkippedNonceRejected ==
  /\ last.op = "send"
  /\ last.res.code = INVALID_NONCE
  /\ SenderOf(last.req) = AddrA
  /\ nonceOf(nonces, AddrA) = 1
  /\ last.res.details.expected = Num(2)
  /\ last.res.details.received = Num(3)


(***************************************************************************)
(* C11, C12  Tamper detection.                                             *)
(***************************************************************************)
\* The body's message differs in exactly one field value from the intent its
\* signature was made over.
TamperedInOneField(body) ==
  LET signed == SignedDigestOf(body).digest
      posted == JSONstringify(body.message)
  IN  /\ Len(signed) = Len(posted)
      /\ Cardinality({i \in 1..Len(signed) : signed[i] # posted[i]}) = 1

\* The body carries the hash of the intent that was signed / of its own message.
StaleHash(body) == body.messageHash = bytesToHex(SignedDigestOf(body))
RecomputedHash(body) ==
  body.messageHash = bytesToHex(keccak_256(JSONstringify(body.message)))

\* The body passes every check the handler runs before the hash check against
\* the nonces `non`.
PassesThroughNonce(body, non) ==
  /\ ReachesNonceCheck(body)
  /\ Get(body.message, "nonce") = Num(nonceOf(non, SenderOf(body)) + 1)

EarlierCodes == {INVALID_ADDRESS, SELF_TRANSFER, INVALID_AMOUNT, INVALID_NONCE}

\* C11 as stated: every body whose message is a single-field mutation of the
\* signed intent and that carries the signed intent's hash is answered
\* INVALID_HASH.
StaleHashIsInvalidHash ==
  [][(SendStep /\ TamperedInOneField(last'.req) /\ StaleHash(last'.req))
       => last'.res.code = INVALID_HASH]_vars

\* C11 amended: such a body is always rejected and changes neither mapping;
\* the code is INVALID_HASH iff the mutated message passes the address,
\* self-transfer, amount and nonce checks, and otherwise it is the code of the
\* earliest of those checks that it fails.
StaleHashRejection ==
  [][(SendStep /\ TamperedInOneField(last'.req) /\ StaleHash(last'.req))
       => /\ balances' = balances /\ nonces' = nonces
          /\ last'.res.status = 400
          /\ IF PassesThroughNonce(last'.req, nonces)
               THEN last'.res.code = INVALID_HASH
             ELSE /\ last'.res.code \in EarlierCodes
                  /\ last'.res.code
                       = FirstViolatedCode(last'.req, balances, nonces)]_vars

\* C11 witness: k1 signed a send from AddrA of amount 1, the body arrived with
\* another amount and the signed intent's hash, and was answered INVALID_HASH.
StaleHashDetected ==
  /\ last.op = "send"
  /\ last.res.code = INVALID_HASH
  /\ TamperedInOneField(last.req) /\ StaleHash(last.req)
  /\ SignerOf(last.req) = "k1" /\ SenderOf(last.req) = AddrA
  /\ AmountOf(last.req) = 2

\* C12 as stated: every body whose message is a single-field mutation of the
\* signed intent and that carries the hash recomputed over the mutated message
\* is answered INVALID_SIGNATURE.
RecomputedHashIsInvalidSignature ==
  [][(SendStep /\ TamperedInOneField(last'.req) /\ RecomputedHash(last'.req))
       => last'.res.code = INVALID_SIGNATURE]_vars

\* C12 amended: such a body is always rejected and changes neither mapping;
\* the code is INVALID_SIGNATURE (status 401) iff the mutated message passes
\* the address, self-transfer, amount and nonce checks, and otherwise it is
\* the code of the earliest of those checks that it fails.
RecomputedHashRejection ==
  [][(SendStep /\ TamperedInOneField(last'.req) /\ RecomputedHash(last'.req))
       => /\ balances' = balances /\ nonces' = nonces
          /\ IF PassesThroughNonce(last'.req, nonces)
               THEN last'.res.code = INVALID_SIGNATURE /\ last'.res.status = 401
             ELSE /\ last'.res.status = 400
                  /\ last'.res.code \in EarlierCodes
                  /\ last'.res.code
                       = FirstViolatedCode(last'.req, balances, nonces)]_vars

\* C12 witness: k1 signed a send from AddrA to AddrB, the body arrived with
\* recipient AddrC and a hash recomputed over it, and was answered
\* INVALID_SIGNATURE.
RecomputedHashDetected ==
  /\ last.op = "send"
  /\ last.res.code = INVALID_SIGNATURE /\ last.res.status = 401
  /\ TamperedInOneField(last.req) /\ RecomputedHash(last.req)
  /\ SignerOf(last.req) = "k1" /\ SenderOf(last.req) = AddrA
  /\ RecipientOf(last.req) = AddrC


(***************************************************************************)
(* C13  Presence check.                                                    *)
(***************************************************************************)
\* One of the three parts of the body is absent.
PartMissing(body) ==
  \/ body.message = Undefined
  \/ body.signature = Undefined
  \/ body.messageHash = Undefined

\* C13: a body in which the message, the signature or the hash is absent is
\* rejected with the code MISSING_FIELDS, whatever else is wrong with it, and
\* changes neither mapping.
MissingPartIsMissingFields ==
  [][(SendStep /\ PartMissing(last'.req))
       => /\ last'.res.status # 200
          /\ last'.res.code = MISSING_FIELDS
          /\ balances' = balances /\ nonces' = nonces]_vars

(***************************************************************************)
(* C14  Recovery failure.                                                  *)
(***************************************************************************)
\* Public-key recovery fails on the body's signature: it is not 65 bytes long
\* or its recovery id, r or s is out of range.
RecoveryFails(body) ==
  LET signatureBytes == body.signature.s[1]
  IN  signatureBytes.len # SignatureBytes \/ ~signatureBytes.wellformed

\* C14: a body that passes the presence, address, self-transfer, amount, nonce
\* and hash checks and on whose signature recovery fails is rejected with
\* INVALID_SIGNATURE, as a body whose recovered address differs from sender.
RecoveryFailureIsInvalidSignature ==
  [][(SendStep /\ PassesThroughNonce(last'.req, nonces)
        /\ RecomputedHash(last'.req) /\ RecoveryFails(last'.req))
       => last'.res.code = INVALID_SIGNATURE /\ last'.res.status = 401]_vars

(***************************************************************************)
(* C15  Amount bound.                                                      *)
(***************************************************************************)
\* The handler's run on the body gets as far as the amount check.
ReachesAmountCheck(body) ==
  LET sender == Get(body.message, "sender")
      recipient == Get(body.message, "recipient")
  IN  /\ ~PartMissing(body)
      /\ IsNum(Get(body.message, "amount"))
      /\ Get(body.message, "nonce") # Undefined
      /\ IsStr(sender) /\ isValidAddress(sender.s)
      /\ IsStr(recipient) /\ isValidAddress(recipient.s)
      /\ toLowerCase(sender.s) # toLowerCase(recipient.s)

\* The number is an integer between 1 and 1,000,000.
InAmountRange(v) == v.f = 0 /\ 1 <= v.n /\ v.n <= 1000000

AmountIsChecked ==
  (SendStep /\ ReachesAmountCheck(last'.req)) =>
    LET amount == Get(last'.req.message, "amount")
    IN  IF InAmountRange(amount)
          THEN last'.res.code # INVALID_AMOUNT
        ELSE /\ last'.res.status = 400
             /\ last'.res.code = INVALID_AMOUNT
             /\ balances' = balances /\ nonces' = nonces

PassesThroughSignature(body, non) ==
  /\ PassesThroughNonce(body, non)
  /\ RecomputedHash(body)
  /\ ~RecoveryFails(body)
  /\ SignedDigestOf(body) = keccak_256(JSONstringify(body.message))
  /\ toLowerCase(AddressOfKey(SignerOf(body))) = toLowerCase(SenderOf(body))

FundsAreChecked ==
  (SendStep /\ PassesThroughSignature(last'.req, nonces)) =>
    LET sender == SenderOf(last'.req)
        amount == AmountOf(last'.req)
        available == balanceOf(balances, sender)
    IN  IF available < amount
          THEN /\ last'.res.status = 400
               /\ last'.res.code = INSUFFICIENT_FUNDS
               /\ last'.res.details.required = Num(amount)
               /\ last'.res.details.available = Num(available)
        ELSE /\ last'.res.status = 200
             /\ balanceOf(balances', sender) = available - amount

\* C16: a body that passed every earlier check is rejected with
\* INSUFFICIENT_FUNDS, required = amount, available = the sender's balance, iff
\* that balance is strictly less than amount; otherwise it commits, so a
\* transfer of exactly the whole balance leaves the sender at 0.
FundsCheck == [][FundsAreChecked]_vars

\* C16 witness: AddrB, holding 1, tried to send 2 and was told required 2,
\* available 1.
OverdraftRejected ==
  /\ last.op = "send"
  /\ last.res.code = INSUFFICIENT_FUNDS
  /\ SenderOf(last.req) = AddrB
  /\ last.res.details.required = Num(2)
  /\ last.res.details.available = Num(1)

(***************************************************************************)
(* C17  Success response.                                                  *)
(***************************************************************************)
\* The response of a commit reports the ledger the commit left.
ResponseReportsCommit ==
  CommitStep =>
    LET sender == SenderOf(last'.req)
        recipient == RecipientOf(last'.req)
        amount == AmountOf(last'.req)
        data == last'.res.details
    IN  /\ data.balance = balanceOf(balances, sender) - amount
        /\ data.newNonce = NonceOf(last'.req)
        /\ data.newNonce = nonceOf(nonces, sender) + 1
        /\ data.recipient.address = recipient
        /\ data.recipient.newBalance = balanceOf(balances, recipient) + amount
        /\ getBalance(sender, balances').details.balance = data.balance
        /\ getNonce(sender, nonces').details.nonce = data.newNonce
        /\ getBalance(recipient, balances').details.balance
             = data.recipient.newBalance

\* A query that immediately follows a commit returns what the commit reported.
QueryAgreesWithResponse ==
  (last.op = "send" /\ last.res.status = 200) =>
    /\ (last'.op = "balance" /\ last'.req = SenderOf(last.req))
         => last'.res.details.balance = last.res.details.balance
    /\ (last'.op = "balance" /\ last'.req = RecipientOf(last.req))
         => last'.res.details.balance = last.res.details.recipient.newBalance
    /\ (last'.op = "nonce" /\ last'.req = SenderOf(last.req))
         => last'.res.details.nonce = last.res.details.newNonce

\* C17: the response of a commit reports the sender's balance before the
\* commit minus amount, newNonce = the submitted nonce = the nonce before the
\* commit plus 1, and the recipient's balance before the commit plus amount;
\* queryBalance and queryNonce return the same values right afterwards.
SuccessResponse == [][ResponseReportsCommit /\ QueryAgreesWithResponse]_vars

\* C17 witness: from the stored ledger (AddrA 2, AddrB 1, nonce 0) AddrA sent 1
\* to AddrB with nonce 1 and was answered balance 1, newNonce 1, recipient 2.
FirstSendAnswered ==
  /\ last.op = "send" /\ last.res.status = 200
  /\ SenderOf(last.req) = AddrA /\ RecipientOf(last.req) = AddrB
  /\ AmountOf(last.req) = 1
  /\ last.res.details.balance = InitBalanceA - 1
  /\ last.res.details.newNonce = 1
  /\ last.res.details.recipient.newBalance = InitBalanceB + 1


(***************************************************************************)
(* C18  Queries.                                                           *)
(***************************************************************************)
\* The string is the two characters 0x followed by exactly 40 hexadecimal
\* digits of either case.
IsHexDigit(c) ==
  c \in {"0", "1", "2", "3", "4", "5", "6", "7", "8", "9"}
        \cup {"a", "b", "c", "d", "e", "f"} \cup {"A", "B", "C", "D", "E", "F"}

WellFormedAddress(s) ==
  /\ Len(s) = 42
  /\ s[1] = "0" /\ s[2] = "x"
  /\ \A i \in 3..42 : IsHexDigit(s[i])

QueryIsAnswered ==
  /\ last'.op = "nonce" =>
       IF WellFormedAddress(last'.req)
         THEN /\ last'.res.status = 200
              /\ last'.res.details.nonce
                   = IF last'.req \in DOMAIN nonces THEN nonces[last'.req] ELSE 0
       ELSE last'.res.status = 400 /\ last'.res.code = INVALID_ADDRESS
  /\ last'.op = "balance" =>
       IF WellFormedAddress(last'.req)
         THEN /\ last'.res.status = 200
              /\ last'.res.details.balance
                   = IF last'.req \in DOMAIN balances THEN balances[last'.req] ELSE 0
       ELSE last'.res.status = 400 /\ last'.res.code = INVALID_ADDRESS
  /\ last'.op \in {"nonce", "balance"} => (balances' = balances /\ nonces' = nonces)

\* C18: queryNonce and queryBalance reject an address of invalid format with
\* INVALID_ADDRESS and otherwise return the nonce / balance the ledger holds
\* for that address, or 0 when it holds none; they change nothing.
Queries == [][QueryIsAnswered]_vars

\* C18 witness: after AddrA committed a send, its nonce was queried and
\* answered 1, while AddrC still has no nonce entry.
NonceQueriedAfterSend ==
  /\ last.op = "nonce" /\ last.req = AddrA
  /\ last.res.status = 200 /\ last.res.details.nonce = 1
  /\ AddrC \notin DOMAIN nonces


(***************************************************************************)
(* C19  Case-normalized ledger.                                            *)
(***************************************************************************)
\* Two spellings of the address of k1 that differ only in letter case.
CaseVariants == {AddrA, AddrAUpper}

\* The queries answer the same for every spelling of an address.
SameAnswerInAnyCase ==
  \A a, b \in CaseVariants :
    /\ getBalance(a, balances) = getBalance(b, balances)
    /\ getNonce(a, nonces) = getNonce(b, nonces)

\* A commit debits, credits and advances the account of the normalized address.
CommitMovesNormalizedAccount ==
  CommitStep =>
    LET sender == toLowerCase(SenderOf(last'.req))
        recipient == toLowerCase(RecipientOf(last'.req))
        amount == AmountOf(last'.req)
    IN  /\ balanceOf(balances', sender) = balanceOf(balances, sender) - amount
        /\ balanceOf(balances', recipient) = balanceOf(balances, recipient) + amount
        /\ nonceOf(nonces', sender) = nonceOf(nonces, sender) + 1

\* A send is judged against the account of the normalized sender address: it
\* is not refused for lack of funds that account has, nor accepted with a
\* nonce that account has used.
JudgedAgainstNormalizedAccount ==
  SendStep =>
    /\ last'.res.code = INSUFFICIENT_FUNDS
         => balanceOf(balances, toLowerCase(SenderOf(last'.req)))
              < AmountOf(last'.req)
    /\ last'.res.code \in {INSUFFICIENT_FUNDS, ""}
         => NonceOf(last'.req)
              = nonceOf(nonces, toLowerCase(SenderOf(last'.req))) + 1

\* C19: in every reachable state queryBalance and queryNonce answer the same
\* for address strings that differ only in letter case, and a transfer whose
\* sender or recipient is written in any case is judged against, and moves,
\* the one account of the normalized address.
CaseNormalizedLedger ==
  /\ []SameAnswerInAnyCase
  /\ [][CommitMovesNormalizedAccount /\ JudgedAgainstNormalizedAccount]_vars

(***************************************************************************)
(* C20  Address format.                                                    *)
(***************************************************************************)
\* C20: the GET handlers accept the address string iff it is 0x followed by
\* exactly 40 hexadecimal digits of either case, and isValidAddress agrees on
\* every candidate string.
AddressFormat ==
  [][last'.op \in {"nonce", "balance"}
       => /\ (last'.res.status = 200) = WellFormedAddress(last'.req)
          /\ isValidAddress(last'.req) = WellFormedAddress(last'.req)]_vars

\* C20 witness: the upper-case address was accepted, and a string with 41
\* digits and one with a non-hex last character are among the candidates
\* and are refused.
UpperCaseAccepted ==
  /\ last.op = "balance" /\ last.req = AddrAUpper
  /\ last.res.status = 200
  /\ ~isValidAddress(AddrA \o <<"0">>)
  /\ ~isValidAddress(WithChar(AddrAUpper, AddrHexLen + 2, "g"))


(***************************************************************************)
(* C21  Sign / recover round trip.                                         *)
(***************************************************************************)
\* The body is what signTransaction makes of its own message with key k.
BuiltBy(body, k) ==
  LET made == signTransaction(k, body.message)
  IN  body.signature = made.signature /\ body.messageHash = made.messageHash

RoundTripHolds ==
  SendStep =>
    \A k \in Keys :
      BuiltBy(last'.req, k) =>
        LET recovered ==
              verifySignatureAndGetAddress(last'.req.messageHash,
                                           last'.req.signature)
        IN  /\ ~recovered.threw
            /\ recovered.value = deriveAddress(k)
            /\ SenderOf(last'.req) = deriveAddress(k)
                 => last'.res.code \notin {INVALID_HASH, INVALID_SIGNATURE,
                                           INTERNAL_ERROR}

SameIntent(b1, b2) ==
  \A key \in {"sender", "recipient", "amount", "nonce"} :
    Get(b1.message, key) = Get(b2.message, key)

\* C22: the hash the server recomputes depends on the four intent values only:
\* whenever the handler runs on a body, every body with the same four values,
\* whatever the order of its keys and whether or not it carries a timestamp,
\* has the same recomputed hash, and with the same signature and messageHash
\* it gets the same answer.
CanonicalHash ==
  [][SendStep =>
       \A other \in ShapedBodies :
         SameIntent(other, last'.req) =>
           /\ computeHash(other.message) = computeHash(last'.req.message)
           /\ (other.signature = last'.req.signature
                 /\ other.messageHash = last'.req.messageHash)
                => postSend(other, balances, nonces).res.code = last'.res.code]_vars

(***************************************************************************)
(* C23  InvalidSignature is the authentication failure.                    *)
(***************************************************************************)
ValidationCodes ==
  {INVALID_ADDRESS, SELF_TRANSFER, INVALID_AMOUNT, INVALID_NONCE, INVALID_HASH,
   INSUFFICIENT_FUNDS}

\* C23: a rejection carries INVALID_SIGNATURE only when the body passed the
\* presence, address, self-transfer, amount, nonce and hash checks and failed
\* the signature check; a rejection has status 401 iff its code is
\* INVALID_SIGNATURE, and every other validation rejection has status 400.
InvalidSignatureReserved ==
  [][RejectStep =>
       /\ last'.res.code = INVALID_SIGNATURE
            => /\ ~PartMissing(last'.req)
               /\ PassesThroughNonce(last'.req, nonces)
               /\ RecomputedHash(last'.req)
               /\ ~PassesThroughSignature(last'.req, nonces)
       /\ last'.res.status = 401 <=> last'.res.code = INVALID_SIGNATURE
       /\ last'.res.code \in ValidationCodes => last'.res.status = 400]_vars

(***************************************************************************)
(* C24  InternalError hides internals.                                     *)
(***************************************************************************)
\* C24: a response with the code INTERNAL_ERROR carries no details: the text
\* of the exception caught by the handler is not sent to the caller.
InternalErrorHidesInternals ==
  [][(SendStep /\ last'.res.code = INTERNAL_ERROR)
       => last'.res.status = 500 /\ last'.res.details = NoDetails]_vars

(***************************************************************************)
(* C25  Persistence is decoupled from commit.                              *)
(***************************************************************************)
\* The step is a firing of the save timer in which the write fails.
SaveFailed == last'.op = "save" /\ last'.failed

\* C25: a failed save leaves balances and nonces as every committed
\* transaction made them, and leaves the server running, so that it goes on
\* answering queries and handling submissions against that state.
PersistenceDecoupled ==
  [][SaveFailed =>
       /\ balances' = balances /\ nonces' = nonces
       /\ up']_vars

(***************************************************************************)
(* C26  Private key confidentiality.                                       *)
(***************************************************************************)
\* The bodies posted to the server in the step.
Posted ==
  { b \in BagToSet(inflight') : CopiesIn(b, inflight') > CopiesIn(b, inflight) }

FieldNames(message) == [i \in 1..Len(message.fields) |-> message.fields[i][1]]

\* The body the client posts for the same sender, recipient, amount and nonce
\* when the private key typed in is k.
WithKey(b, k) ==
  transferBody(k, SenderOf(b), RecipientOf(b), AmountOf(b), NonceOf(b))

\* The body holds the three parts and the four intent fields and nothing else,
\* no value in it is the private key, its hash is a function of the message
\* alone, and replacing the private key by another changes the signature only.
KeyOnlySigns(b) ==
  /\ DOMAIN b = {"message", "signature", "messageHash"}
  /\ FieldNames(b.message) = <<"sender", "recipient", "amount", "nonce">>
  /\ \A i \in 1..Len(b.message.fields), k \in Keys :
       b.message.fields[i][2] # Str(<<k>>)
  /\ b.messageHash = computeHash(b.message)
  /\ \E k \in Keys :
       /\ b = WithKey(b, k)
       /\ \A other \in Keys :
            WithKey(b, other) =
              [b EXCEPT !.signature =
                 bytesToHex(sign(keccak_256(JSONstringify(b.message)), other))]

\* The path of a query is an address the user typed or the address derived
\* from the private key, never the private key.
QueryHidesKey ==
  last'.op \in {"balance", "nonce"} =>
    /\ last'.req \in TypedAddresses \cup {deriveAddress(k) : k \in Keys}
    /\ \A k \in Keys : last'.req # <<k>>

\* C26: no request of the client holds the private key: a balance or nonce
\* query names an address, and a posted body depends on the private key
\* through its signature only.
KeyConfidentiality ==
  [][QueryHidesKey /\ \A b \in Posted : KeyOnlySigns(b)]_vars

\* Two holders of different keys have posted the same intent: the bodies
\* differ in the signature.
SameIntentTwoKeys ==
  \E b1, b2 \in BagToSet(inflight) :
    /\ SignerOf(b1) = "k1" /\ SignerOf(b2) = "k2"
    /\ b1.message = b2.message /\ b1.messageHash = b2.messageHash
    /\ b1.signature # b2.signature

(***************************************************************************)
(* C27  The ledger is mutated only through a commit.                       *)
(***************************************************************************)
\* The step just taken answered a GET /nonce or GET /balance.
QueryStep == last'.op \in {"nonce", "balance"}

\* C27: balances and nonces change only in a step that commits a transfer; a
\* nonce or balance query, of a valid or an invalid address, leaves both as
\* they are and adds no entry for the queried address.
LedgerMutatedOnlyByCommit ==
  [][/\ (balances' # balances \/ nonces' # nonces) => CommitStep
     /\ QueryStep => /\ balances' = balances /\ nonces' = nonces
                     /\ DOMAIN balances' = DOMAIN balances
                     /\ DOMAIN nonces' = DOMAIN nonces]_vars

(***************************************************************************)
(* C28  Every submission ends in one terminal state.                       *)
(***************************************************************************)
\* The handler's run is the one response to one submission: it takes the
\* submission out of those in flight and either commits it, answering 200, or
\* rejects it with a code, never both.
OneTerminalState ==
  SendStep =>
    /\ BagIn(last'.req, inflight)
    /\ inflight' = inflight (-) SetToBag({last'.req})
    /\ \/ /\ last'.res.status = 200 /\ last'.res.code = ""
          /\ committed' = committed (+) SetToBag({last'.req})
       \/ /\ last'.res.status # 200 /\ last'.res.code # ""
          /\ committed' = committed

\* No submission is left without a response: the handler can still run on
\* every submission in flight.
NoneStranded == \A body \in BagToSet(inflight) : ENABLED Handle(body)

\* C28: every submission ends in exactly one of Committed and Rejected(code)
\* with exactly one response, and none is left without a response.
SubmissionTerminates == []NoneStranded /\ [][OneTerminalState]_vars

(***************************************************************************)
(* C29  Malformed intent fields are validation failures.                   *)
(***************************************************************************)
\* C29: a body with all three parts whose message has no amount, or an amount
\* that is not a number, is rejected with the code of the earliest check it
\* fails (INVALID_ADDRESS, SELF_TRANSFER or INVALID_AMOUNT), and one whose
\* message has no nonce is rejected with a validation code; neither is
\* answered INTERNAL_ERROR.
MalformedIntentIsValidationFailure ==
  [][(SendStep /\ ~PartMissing(last'.req)) =>
       /\ ~IsNum(Get(last'.req.message, "amount"))
            => /\ last'.res.code = FirstViolatedCode(last'.req, balances, nonces)
               /\ last'.res.code \in {INVALID_ADDRESS, SELF_TRANSFER, INVALID_AMOUNT}
       /\ Get(last'.req.message, "nonce") = Undefined
            => last'.res.code \in ValidationCodes]_vars

(***************************************************************************)
(* C30  Self-transfer.                                                     *)
(***************************************************************************)
\* The body has its three parts, and the sender and recipient of its message
\* are well-formed addresses that are equal up to the case of their letters.
NamesItself(body) ==
  LET sender == Get(body.message, "sender")
      recipient == Get(body.message, "recipient")
  IN  /\ ~PartMissing(body)
      /\ IsStr(sender) /\ isValidAddress(sender.s)
      /\ IsStr(recipient) /\ isValidAddress(recipient.s)
      /\ toLowerCase(sender.s) = toLowerCase(recipient.s)

\* C30: a body whose sender and recipient are well formed and equal up to case
\* is rejected with SELF_TRANSFER whatever its amount, nonce, hash and
\* signature are, and no committed transfer has its sender as recipient.
SelfTransferRejected ==
  [][/\ (SendStep /\ NamesItself(last'.req))
          => /\ last'.res.status = 400 /\ last'.res.code = SELF_TRANSFER
             /\ balances' = balances /\ nonces' = nonces
     /\ CommitStep
          => toLowerCase(SenderOf(last'.req)) # toLowerCase(RecipientOf(last'.req))]_vars

(***************************************************************************)
(* C31  Frame of a commit.                                                 *)
(***************************************************************************)
CommitFrame ==
  CommitStep =>
    LET sender == SenderOf(last'.req)
        recipient == RecipientOf(last'.req)
    IN  /\ balances'[sender] # balanceOf(balances, sender)
        /\ balances'[recipient] # balanceOf(balances, recipient)
        /\ nonces'[sender] # nonceOf(nonces, sender)
        /\ DOMAIN balances' = DOMAIN balances \cup {sender, recipient}
        /\ DOMAIN nonces' = DOMAIN nonces \cup {sender}
        /\ \A a \in DOMAIN balances \ {sender, recipient} : balances'[a] = balances[a]
        /\ \A a \in DOMAIN nonces \ {sender} : nonces'[a] = nonces[a]

\* C31: a commit changes balances[sender], balances[recipient] and
\* nonces[sender] and nothing else: the recipient's nonce and every other
\* address's balance and nonce are as before, and no other entry appears.
FrameOfCommit == [][CommitStep => CommitFrame]_vars

\* A transfer from AddrA to AddrC has been committed while AddrB, party to
\* neither side, holds its stored balance, and AddrA has a nonce entry only.
ThirdPartyUntouched ==
  /\ last.op = "send" /\ last.res.status = 200
  /\ SenderOf(last.req) = AddrA /\ RecipientOf(last.req) = AddrC
  /\ AddrB \in DOMAIN balances /\ balances[AddrB] = InitBalanceB
  /\ DOMAIN nonces = {AddrA}

(***************************************************************************)
(* C32  Total supply.                                                      *)
(***************************************************************************)
RECURSIVE SumOver(_, _)
SumOver(bal, addresses) ==
  IF addresses = {} THEN 0
  ELSE LET a == CHOOSE x \in addresses : TRUE
       IN  bal[a] + SumOver(bal, addresses \ {a})

\* The sum of all balances of a ledger.
TotalSupply(bal) == SumOver(bal, DOMAIN bal)

\* C32: in every reachable state the sum of all balances is the sum of the
\* balances the server loaded at startup, whatever queries, rejected and
\* committed submissions came in between and however they interleaved.
TotalSupplyConstant ==
  TotalSupply(balances) = TotalSupply(initialStorage(disk).balances)

\* After a commit, a submission has been refused for lack of funds, and the
\* stored supply is all there is.
SupplyAfterCommitAndRejection ==
  /\ last.op = "send" /\ last.res.code = INSUFFICIENT_FUNDS
  /\ BagCardinality(committed) >= 1
  /\ TotalSupply(balances) = InitBalanceA + InitBalanceB

(***************************************************************************)
(* C33  Client nonce protocol.                                             *)
(***************************************************************************)
\* The body is signed by the holder of the sender's key and the sender can
\* pay the amount: nothing but its nonce can be wrong with it.
OtherwiseValid(body) ==
  /\ AddressOfKey(SignerOf(body)) = SenderOf(body)
  /\ balanceOf(balances, SenderOf(body)) >= AmountOf(body)

\* The client read nonce n = NonceOf(body) - 1, when the sender had n committed
\* transfers; `since` is the number committed after the read.
ReadThenSubmit ==
  (SendStep /\ OtherwiseValid(last'.req)) =>
    LET since == CommitsBy(SenderOf(last'.req)) - (NonceOf(last'.req) - 1)
    IN  /\ since >= 0
        /\ last'.res.status = 200 <=> since = 0
        /\ since # 0 => /\ last'.res.code = INVALID_NONCE
                        /\ balances' = balances /\ nonces' = nonces

\* C33: a body built from a read of nonce n, valid but for its nonce, is
\* committed iff the sender committed nothing between the read and the
\* handler's run, and is otherwise rejected with INVALID_NONCE without a
\* change of state; of two clients that read the same n at most one commits.
ClientNonceProtocol == []AtMostOneCommit /\ [][ReadThenSubmit]_vars

\* Two clients read the same nonce of AddrA and posted; one body committed
\* and the other, signed with AddrA's key as well, was rejected.
SecondReaderRejected ==
  /\ last.op = "send" /\ last.res.code = INVALID_NONCE
  /\ SignerOf(last.req) = "k1" /\ SenderOf(last.req) = AddrA
  /\ \E c \in BagToSet(committed) :
       SameSenderAndNonce(c, last.req) /\ SignerOf(c) = "k1"

(***************************************************************************)
(* C34  Save debounce.                                                     *)
(***************************************************************************)
\* At most one save timer is pending, and it is the one saveTimeout holds.
OneTimerPending ==
  /\ Cardinality(timers) <= 1
  /\ up => IF saveTimeout = Null THEN timers = {}
           ELSE timers = {saveTimeout.handle}

\* The step just taken ran the save timer's callback.
SaveStep == last'.op = "save"

\* A commit leaves exactly one timer pending, however many commits came
\* before it since the last save; a timer is started by a commit only; a save
\* is the firing of the pending timer, so it follows a commit, and leaves no
\* timer pending.
DebounceStep ==
  /\ CommitStep => Cardinality(timers') = 1 /\ timers' = {saveTimeout'.handle}
  /\ (timers' # {} /\ timers' # timers) => CommitStep
  /\ SaveStep => /\ Cardinality(timers) = 1 /\ timers' = {}
                 /\ committed # EmptyBag

\* C34: at most one save timer is pending at any time; scheduleSave cancels
\* the pending timer and starts a new one, so commits that follow one another
\* before the timer fires leave one timer and cause one save, after the last
\* of them; no save runs without a commit before it.
SaveDebounce == []OneTimerPending /\ [][DebounceStep]_vars

\* Two commits in a row, no save between them: one timer is pending.
BurstPendsOneSave ==
  /\ BagCardinality(committed) = 2
  /\ disk = StoredFile
  /\ Cardinality(timers) = 1
  /\ last.op = "send" /\ last.res.status = 200

(***************************************************************************)
(* C35  Eventual persistence.                                              *)
(***************************************************************************)
\* The nonces in the storage file; every commit changes the nonces in memory,
\* so a commit is unsaved while the two differ.
DiskNonces == IF disk.kind = "file" THEN disk.nonces ELSE EmptyMap

Unsaved == nonces # DiskNonces

\* While a commit is unsaved the save that will write it is still to come.
SaveStillToCome == Unsaved => ENABLED (\E t \in timers : SaveFires(t))

\* The file written by a save is the whole ledger in memory at that moment.
SnapshotIsLedger ==
  (SaveStep /\ ~last'.failed) =>
    /\ disk' = File(balances, nonces)
    /\ balances' = balances /\ nonces' = nonces

\* C35: after every commit the ledger is eventually saved, and the file a save
\* writes holds exactly the balances and nonces in memory when it is written.
EventualPersistence == []SaveStillToCome /\ [][SnapshotIsLedger]_vars

(***************************************************************************)
(* C36  Startup state.                                                     *)
(***************************************************************************)
\* C36: while nothing has been committed, the ledger is the content of the
\* storage file if there is one and it parses, and is empty if the file is
\* absent or cannot be loaded; in either case the server is up and answers a
\* query of a well-formed address from that ledger, never with an error.
StartupState ==
  /\ up
  /\ disk.kind = "file" => balances = disk.balances /\ nonces = disk.nonces
  /\ disk.kind # "file" => balances = EmptyMap /\ nonces = EmptyMap
  /\ (last.op = "balance" /\ isValidAddress(last.req))
       => /\ last.res.status = 200
          /\ last.res.details.balance =
               IF disk.kind = "file" THEN OrZero(disk.balances, last.req) ELSE 0
  /\ (last.op = "nonce" /\ isValidAddress(last.req))
       => /\ last.res.status = 200
          /\ last.res.details.nonce =
               IF disk.kind = "file" THEN OrZero(disk.nonces, last.req) ELSE 0

\* Started from a file that cannot be parsed, the server answered a balance
\* query with 0.
CorruptFileServedEmpty ==
  /\ disk = Corrupt
  /\ last.op = "balance" /\ last.res.status = 200
  /\ last.res.details.balance = 0

(***************************************************************************)
(* C37  Address derivation agrees everywhere.                              *)
(***************************************************************************)
\* The three derivations give one address for the key pair of privateKey
\* typed as `text`, and that address passes the server's format check and is
\* in lower case.
SameAddress(privateKey, text) ==
  LET server == publicKeyToAddressBytes(getPublicKeyBytes(privateKey))
  IN  /\ deriveAddressFromText(text) = server
      /\ generateKeyPair(privateKey).address = server
      /\ isValidAddress(server)
      /\ WellFormedAddress(server)
      /\ server = toLowerCase(server)

\* C37: for every key pair, the server's publicKeyToAddress, the client's
\* deriveAddress and the key generation script compute the same address, 0x
\* and the lower-case hex of the last 20 bytes of the hash of the public key
\* without its prefix byte, and the server accepts it as an address.
DerivationAgrees ==
  last.op \in {"nonce", "balance"} =>
    \A p \in PrivateKeys :
      (last.req = generateKeyPair(p).address
         \/ last.req = deriveAddressFromText(bytesToHexDigits(p)))
        => /\ \A text \in TextsOf(p) : SameAddress(p, text)
           /\ last.res.status = 200

\* The balance of the address derived from a key typed in upper case with
\* its 0x prefix has been served.
UpperCaseKeyServed ==
  /\ last.op = "balance" /\ last.res.status = 200
  /\ last.req = deriveAddressFromText(<<"0", "x">> \o Rep("A", 32) \o Rep("B", 32))
  /\ last.req = publicKeyToAddressBytes(getPublicKeyBytes(Rep(170, 16) \o Rep(187, 16)))

(***************************************************************************)
(* C38  Request correlation in logs.                                       *)
(***************************************************************************)
\* The step just taken handled an HTTP request.
RequestStep == last'.op \in {"send", "nonce", "balance"}

\* C38: every entry written while a request is handled, those written inside
\* the transaction, nonce-query and balance-query contexts included, carries
\* the requestId the middleware gave that request, and none carries the id of
\* another request.
LogsCarryRequestId ==
  [][RequestStep =>
       \A i \in 1..Len(last'.log) : last'.log[i].requestId = <<last'.req>>]_vars

(***************************************************************************)
(* The Wallet component (client/src/Wallet.tsx): the address and balance   *)
(* it shows and the GET balance requests it has sent and not yet seen the  *)
(* answer of.  Each handler runs up to its await; the rest of it runs when *)
(* the response arrives.                                                   *)
(***************************************************************************)
MaxRequests == 3       \* balance requests the Wallet sends in one run

WalletAddresses == {AddrA, AddrB, <<"0", "x", "a">>}

\* The Wallet's own address test: an optional 0x, then exactly 40 hex digits.
walletAcceptsAddress(newAddress) ==
  LET cleanAddress == IF startsWith0x(newAddress)
                        THEN SubSeq(newAddress, 3, Len(newAddress)) ELSE newAddress
  IN  /\ Len(cleanAddress) = AddrHexLen
      /\ \A i \in 1..Len(cleanAddress) : cleanAddress[i] \in HexDigits

\* server.get(`balance/${address}`) is sent; the handler waits for it.  The
\* request is numbered, and current is the number of the request sent for the
\* address now shown (0 when none was sent for it).
requestBalance(w, address) ==
  [w EXCEPT !.issued = w.issued + 1,
            !.current = w.issued + 1,
            !.pending = @ \cup {[id |-> w.issued + 1, address |-> address,
                                 res |-> NoResponse]}]

\* Wallet.onAddressChange up to its await.
onAddressChange(newAddress) ==
  /\ wallet.issued < MaxRequests
  /\ LET shown == [wallet EXCEPT !.address = newAddress]
     IN  wallet' = IF walletAcceptsAddress(newAddress)
                     THEN requestBalance(shown, newAddress)
                   ELSE [shown EXCEPT !.balance = 0, !.current = 0]
  /\ UNCHANGED <<balances, nonces, saveTimeout, timers, disk, up, inflight, last,
                 committed>>

\* Wallet.onPrivateKeyChange up to its await; a key that derives no address
\* changes nothing that is shown.
onPrivateKeyChangeAwait(newPrivateKey) ==
  /\ wallet.issued < MaxRequests
  /\ LET derivedAddress == deriveAddress(newPrivateKey)
     IN  wallet' = IF derivedAddress # <<>>
                     THEN requestBalance([wallet EXCEPT !.address = derivedAddress],
                                         derivedAddress)
                   ELSE wallet
  /\ UNCHANGED <<balances, nonces, saveTimeout, timers, disk, up, inflight, last,
                 committed>>

\* The server handles one of the Wallet's GET balance requests; the response
\* is on its way back.
serveBalance(request) ==
  /\ up
  /\ request \in wallet.pending
  /\ request.res = NoResponse
  /\ LET res == getBalance(request.address, balances)
     IN  /\ last' = [op |-> "balance", req |-> request.address, res |-> res,
                     log |-> queryLog("balance-query", request.address, res)]
         /\ wallet' = [wallet EXCEPT !.pending =
                         (@ \ {request}) \cup {[request EXCEPT !.res = res]}]
  /\ UNCHANGED <<balances, nonces, saveTimeout, timers, disk, up, inflight, committed>>

\* What the rest of the handler passes to setBalance for a response: the
\* balance of a 200, and 0 from the catch block for an error status.
balanceFrom(res) == IF res.status = 200 THEN res.details.balance ELSE 0

\* A response arrives and the handler that awaited it runs to its end.
balanceArrives(request) ==
  /\ request \in wallet.pending
  /\ request.res # NoResponse
  /\ wallet' = [wallet EXCEPT !.balance = balanceFrom(request.res),
                              !.pending = @ \ {request}]
  /\ UNCHANGED <<balances, nonces, saveTimeout, timers, disk, up, inflight, last,
                 committed>>

NextWallet ==
  \/ \E newAddress \in WalletAddresses : onAddressChange(newAddress)
  \/ \E newPrivateKey \in TypedKeys : onPrivateKeyChangeAwait(newPrivateKey)
  \/ \E request \in wallet.pending : serveBalance(request)
  \/ \E request \in wallet.pending : balanceArrives(request)

SpecWallet == Init /\ [][NextWallet]_vars

(***************************************************************************)
(* C39  Wallet display consistency.                                        *)
(***************************************************************************)
\* With no request outstanding, the balance shown is the server's balance for
\* the address shown, or 0 for an address the Wallet does not accept.  (The
\* ledger does not change under SpecWallet, so the server's answer for an
\* address is the same whenever it was asked.)
SettledBalanceIsCurrent ==
  wallet.pending = {} =>
    wallet.balance = IF walletAcceptsAddress(wallet.address)
                       THEN balanceFrom(getBalance(wallet.address, balances))
                     ELSE 0

\* A response to a request that was not sent for the address now shown leaves
\* the balance shown as it is.
StaleResponseIgnored ==
  \A request \in wallet.pending :
    (/\ request.res # NoResponse
     /\ wallet'.pending = wallet.pending \ {request}
     /\ request.id # wallet.current) => wallet'.balance = wallet.balance

\* C39: once every outstanding balance request has settled the Wallet shows the
\* server's balance for the address it shows (0 for an invalid one), and a
\* response to a request sent for an earlier address never overwrites the
\* balance of a later one, in whatever order the responses arrive.
WalletDisplayConsistency ==
  []SettledBalanceIsCurrent /\ [][StaleResponseIgnored]_vars

====
